---- MODULE Spec2Model ----
(***************************************************************************)
(* Verification model of the peloton sources.                              *)
(*                                                                         *)
(* The repository holds independent components; each is modelled as its    *)
(* own state machine over its own variables, with its own specification:  *)
(*   SpecTracked    jobmgr/tracked task (RunAction, UpdateRuntime)         *)
(*   SpecScheduler  scheduler manager (workLoop, launchTasksLoop)          *)
(*   SpecBatch      batch placement strategy (fillOffer, PlaceOnce)        *)
(*   SpecFilters    batch placement strategy (Filters)                     *)
(*   SpecPool       offer pool (RemoveExpiredOffers)                       *)
(*   SpecRecovery   jobmgr/job recovery of one job                         *)
(*   SpecUpdate     update goal-state engine (UpdateRun)                   *)
(*   SpecStart      jobmgr/tracked task.start                              *)
(*   SpecServer     jobmgr Server, the leader-election callbacks           *)
(*   SpecTranslate  MesosStateToPelotonState                               *)
(*   SpecParse      util.ParseTaskIDFromMesosTaskID                        *)
(*   SpecPruner     offer pruner (Start, Stop, the pruning goroutine)      *)
(*   SpecRespool    resource pool config validator over the pool tree      *)
(*   SpecList       master TaskManager.List                                *)
(* A specification leaves the variables of the other components at their   *)
(* initial values.                                                         *)
(***************************************************************************)
EXTENDS Integers, Sequences, FiniteSets, TLC

VARIABLES
    \* ---- jobmgr/tracked: the fields of one task struct ----
    runtime,                \* t.runtime: NIL or a RuntimeInfo
    lastRuntimeUpdateTime,  \* t.lastRuntimeUpdateTime
    lastAction,             \* t.lastAction
    lastActionTime,         \* t.lastActionTime
    killingAttempts,        \* t.killingAttempts
    now,                    \* the clock read by time.Now()
    pc,                     \* per caller of RunAction: where it is
    act,                    \* per caller of RunAction: the action it runs
    call,                   \* the last operation performed on the task
    \* ---- scheduler: the schedulerManager and its workLoop goroutine ----
    started,                \* s.started
    shutdown,               \* s.shutdown
    spc,                    \* where the workLoop goroutine is
    tasks,                  \* the tasks variable of launchTasksLoop
    nTasks,                 \* nTasks of launchTasksLoop: the tasks dequeued
    launched,               \* ids of the tasks a successful LaunchTasks took
    iter,                   \* what the last pass of launchTasksLoop did
    \* ---- placement/plugins/batch: one call of PlaceOnce ----
    assignments,            \* the unassigned argument of PlaceOnce, as given
    hosts,                  \* the hosts argument of PlaceOnce
    unassigned,             \* the unassigned variable of PlaceOnce
    hostIdx,                \* the index of the host the range loop visits next
    hostOf,                 \* per assignment: the hosts SetHost was called with
    bpc,                    \* where PlaceOnce is
    lastFill,               \* what the last fillOffer call got and returned
    \* ---- placement/plugins/batch: one call of Filters ----
    filterInput,            \* the assignments argument of Filters
    fIdx,                   \* the index of the assignment the range loop visits next
    groups,                 \* groups: filter string -> filter
    filters,                \* filters: filter -> the assignments of its group
    fpc,                    \* where Filters is
    \* ---- master/offer: the offer pool ----
    poolOffers,             \* pool.offers: offer id -> Timestamp of the offer
    offerHoldTime,          \* pool.offerHoldTime, in minutes
    poolNow,                \* the clock read by time.Now(), in minutes
    lastRemove,             \* what the last RemoveExpiredOffers call got and returned
    \* ---- jobmgr/job: recovery of one job ----
    recNow,                 \* the clock read by time.Now() and time.Since()
    lastRecoveryTime,       \* j.lastRecoveryTime
    leader,                 \* whether this job manager is the leader
    jobConfig,              \* the job config in the job store
    jobRuntime,             \* the job runtime in the job store
    taskStore,              \* the rows of the task store for the job
    resmgrQueue,            \* the instances the resource manager was given
    rpc,                    \* where recovery is
    recBatch,               \* batch of recoverJob
    recIdx,                 \* i of recoverJob
    tasksToRequeue,         \* tasksToRequeue of recoverJob
    rec,                    \* what the current or last recoverJob call did
    lastCall,               \* what the last recoverJobs call did
    \* ---- update engine (UpdateRun) ----
    updTracked,             \* updateFactory.GetUpdate(id) finds the update
    jobTracked,             \* jobFactory.GetJob(jobID) finds the job
    instancesAdded,         \* cachedUpdate.GetInstancesAdded()
    instancesUpdated,       \* cachedUpdate.GetInstancesUpdated()
    instancesRemoved,       \* cachedUpdate.GetInstancesRemoved()
    instancesCurrent,       \* the instances of cachedUpdate.GetInstancesCurrent()
    instancesDone,          \* the instances of cachedUpdate.GetInstancesDone()
    instancesFailed,        \* the instances of cachedUpdate.GetInstancesFailed()
    batchSize,              \* GetUpdateConfig().BatchSize
    updState,               \* cachedUpdate.GetState().State
    maxFailureInstances,    \* GetUpdateConfig().MaxFailureInstances
    rollbackOnFailure,      \* GetUpdateConfig().RollbackOnFailure
    jobVersion,             \* cachedUpdate.GetGoalState().JobVersion
    prevVersion,            \* cachedUpdate.GetState().JobVersion
    instanceCount,          \* cachedJob.GetConfig().InstanceCount
    prevInstanceCount,      \* the instance count of the previous job config
    taskRuntimes,           \* per instance: NIL or the RuntimeInfo of its task
    versionSwaps,           \* history: how often Rollback swapped the versions
    updRun,                 \* history: what the last UpdateRun did
    \* ---- jobmgr/tracked: task.start ----
    lastStart,              \* what the last call of task.start read, did and returned
    \* ---- jobmgr: the Server and its leader-election callbacks ----
    llcs,                   \* s.llcs: the life cycles NewServer was given
    srvPc,                  \* the callback that runs or ran last and the call it makes next
    srvRunning,             \* the components started and not stopped
    startOrder,             \* history: the components in the order the last gain started them
    stopOrder,              \* history: the components in the order the last loss or shutdown stopped them
    \* ---- util: MesosStateToPelotonState over a stream of status updates ----
    statusLog,              \* the Mesos states translated so far, each with its translation
    \* ---- util: ParseTaskIDFromMesosTaskID ----
    lastParse,              \* what the last call of ParseTaskIDFromMesosTaskID got and returned
    \* ---- the offer pruner (src/unnamed/part_002, lines 215-320) ----
    runningState,           \* p.runningState
    stopPrunerChan,         \* the tokens in p.stopPrunerChan (capacity 1)
    startedChan,            \* the tokens in the started channel of the Start under way (capacity 1)
    prunerMutex,            \* who holds p.Mutex
    callerPc,               \* where each caller of Start and Stop is
    loops,                  \* the pruning goroutines alive, each with its position
    lastPrunerCall,         \* history: the Start or Stop that returned last
    \* ---- the resource pool tree and its config validator (src/unnamed/part_001) ----
    resTree,                \* the resource pools of the tree, by id
    lastValidate,           \* history: the last Validate, and whether its config was applied
    \* ---- TaskManager.List (src/master/task/manager.go, lines 66-102) ----
    listJobs,               \* the jobs of the job store
    listTasks,              \* the instance ids of the tasks of the job in the task store
    lastList                \* history: the last call of List and what came of it

trackedVars == <<runtime, lastRuntimeUpdateTime, lastAction, lastActionTime,
                 killingAttempts, now, pc, act, call>>

schedulerVars == <<started, shutdown, spc, tasks, nTasks, launched, iter>>

batchVars == <<assignments, hosts, unassigned, hostIdx, hostOf, bpc, lastFill>>

filterVars == <<filterInput, fIdx, groups, filters, fpc>>

poolVars == <<poolOffers, offerHoldTime, poolNow, lastRemove>>

recoveryVars == <<recNow, lastRecoveryTime, leader, jobConfig, jobRuntime, taskStore, resmgrQueue, rpc, recBatch, recIdx, tasksToRequeue, rec, lastCall>>

updateVars == <<updTracked, jobTracked, instancesAdded, instancesUpdated,
                instancesRemoved, instancesCurrent, instancesDone,
                instancesFailed, batchSize, updState, maxFailureInstances,
                rollbackOnFailure, jobVersion, prevVersion, instanceCount,
                prevInstanceCount, taskRuntimes, versionSwaps,
                updRun>>

startVars == <<lastStart>>

serverVars == <<llcs, srvPc, srvRunning, startOrder, stopOrder>>

translateVars == <<statusLog>>

parseVars == <<lastParse>>

prunerVars == <<runningState, stopPrunerChan, startedChan, prunerMutex, callerPc, loops, lastPrunerCall>>

respoolVars == <<resTree, lastValidate>>

listVars == <<listJobs, listTasks, lastList>>

vars == <<trackedVars, schedulerVars, batchVars, filterVars, poolVars, recoveryVars, updateVars, startVars, serverVars, translateVars, parseVars, prunerVars, respoolVars, listVars>>

\* What an action of one component leaves alone: the other components.
notTracked == <<schedulerVars, batchVars, filterVars, poolVars, recoveryVars, updateVars, startVars, serverVars, translateVars, parseVars, prunerVars, respoolVars, listVars>>
notScheduler == <<trackedVars, batchVars, filterVars, poolVars, recoveryVars, updateVars, startVars, serverVars, translateVars, parseVars, prunerVars, respoolVars, listVars>>
notBatch == <<trackedVars, schedulerVars, filterVars, poolVars, recoveryVars, updateVars, startVars, serverVars, translateVars, parseVars, prunerVars, respoolVars, listVars>>
notFilters == <<trackedVars, schedulerVars, batchVars, poolVars, recoveryVars, updateVars, startVars, serverVars, translateVars, parseVars, prunerVars, respoolVars, listVars>>
notPool == <<trackedVars, schedulerVars, batchVars, filterVars, recoveryVars, updateVars, startVars, serverVars, translateVars, parseVars, prunerVars, respoolVars, listVars>>
notRecovery == <<trackedVars, schedulerVars, batchVars, filterVars, poolVars, updateVars, startVars, serverVars, translateVars, parseVars, prunerVars, respoolVars, listVars>>
notUpdate == <<trackedVars, schedulerVars, batchVars, filterVars, poolVars, recoveryVars, startVars, serverVars, translateVars, parseVars, prunerVars, respoolVars, listVars>>
notStart == <<trackedVars, schedulerVars, batchVars, filterVars, poolVars, recoveryVars, updateVars, serverVars, translateVars, parseVars, prunerVars, respoolVars, listVars>>
notServer == <<trackedVars, schedulerVars, batchVars, filterVars, poolVars, recoveryVars, updateVars, startVars, translateVars, parseVars, prunerVars, respoolVars, listVars>>
notTranslate == <<trackedVars, schedulerVars, batchVars, filterVars, poolVars, recoveryVars, updateVars, startVars, serverVars, parseVars, prunerVars, respoolVars, listVars>>
notParse == <<trackedVars, schedulerVars, batchVars, filterVars, poolVars, recoveryVars, updateVars, startVars, serverVars, translateVars, prunerVars, respoolVars, listVars>>
notPruner == <<trackedVars, schedulerVars, batchVars, filterVars, poolVars, recoveryVars, updateVars, startVars, serverVars, translateVars, parseVars, respoolVars, listVars>>
\* Everything but the pruner and the pool it prunes.
notPrunerPool == <<trackedVars, schedulerVars, batchVars, filterVars, recoveryVars, updateVars, startVars, serverVars, translateVars, parseVars, respoolVars, listVars>>
notRespool == <<trackedVars, schedulerVars, batchVars, filterVars, poolVars, recoveryVars, updateVars, startVars, serverVars, translateVars, parseVars, prunerVars, listVars>>
notList == <<trackedVars, schedulerVars, batchVars, filterVars, poolVars, recoveryVars, updateVars, startVars, serverVars, translateVars, parseVars, prunerVars, respoolVars>>

\* The nil pointer (a record, so that it compares with every RuntimeInfo).
NIL == [nil |-> TRUE]

(***************************************************************************)
(* jobmgr/tracked/task.go                                                  *)
(***************************************************************************)

\* Bounds of the tracked-task model.
MaxRevision == 2
MaxTime == 3
MaxKillAttempts == 1

\* The concurrent callers of RunAction on one task.
Callers == {"goalstate_worker", "status_update_handler"}

NoAction == "no_action"
KilledAction == "killed"
StartAction == "start_task"
StopAction == "stop_task"
PreemptAction == "preempt_action"
InitializeAction == "initialize_task"
UseGoalVersionAction == "use_goal_state"
ReloadTaskRuntime == "reload_runtime"
FailAction == "fail"
LaunchRetryAction == "launch_retry"
NotifyLaunchedTasksAction == "notify_launched_task"
FailRetryAction == "fail_retry"

TaskActions == {NoAction, KilledAction, StartAction, StopAction, PreemptAction,
                InitializeAction, UseGoalVersionAction, ReloadTaskRuntime,
                FailAction, LaunchRetryAction, NotifyLaunchedTasksAction,
                FailRetryAction}

\* The task states a runtime carries in this model.
RuntimeStates == {"RUNNING", "FAILED"}

\* pb_task.RuntimeInfo, reduced to the fields UpdateRuntime reads or compares.
RuntimeInfos == [revision : 0..MaxRevision, state : RuntimeStates]

\* runtime.GetRevision().GetVersion(): the getters are nil-safe and give 0.
GetVersion(r) == IF r = NIL THEN 0 ELSE r.revision

\* The equal-revision branch of UpdateRuntime: t.runtime = nil.
ResetOnSameRevision(cur, r) ==
    IF cur # NIL /\ GetVersion(cur) = GetVersion(r) THEN NIL ELSE cur

\* UpdateRuntime without its stale check (the check's comparison lost).
UpdateRuntimeNoStaleCheck(cur, r) ==
    IF cur = r THEN [runtime |-> cur, stored |-> FALSE]
    ELSE [runtime |-> r, stored |-> TRUE]

\* task.UpdateRuntime as a function of the cached runtime and the argument:
\* the runtime cached afterwards and whether lastRuntimeUpdateTime was set.
UpdateRuntime(cur, r) ==
    IF cur = r                                  \* reflect.DeepEqual
    THEN [runtime |-> cur, stored |-> FALSE]
    ELSE IF GetVersion(cur) > GetVersion(r)     \* "got old revision"
    THEN [runtime |-> cur, stored |-> FALSE]
    ELSE LET reset == ResetOnSameRevision(cur, r)   \* "got same revision"
         IN  \* t.runtime = runtime follows unconditionally and overwrites reset
             [runtime |-> r, stored |-> TRUE]

TrackedInit ==
    /\ runtime = NIL
    /\ lastRuntimeUpdateTime = 0
    /\ lastAction = ""
    /\ lastActionTime = 0
    /\ killingAttempts = 0
    /\ now = 0
    /\ pc = [p \in Callers |-> "idle"]
    /\ act = [p \in Callers |-> ""]
    /\ call = [op |-> "newTask"]

\* A caller outside RunAction (the manager, on a status update) calls
\* t.UpdateRuntime(r). The whole method runs under t.Lock().
UpdateRuntimeCall ==
    \E r \in RuntimeInfos :
        LET res == UpdateRuntime(runtime, r) IN
        /\ res.stored => now < MaxTime
        /\ runtime' = res.runtime
        /\ now' = IF res.stored THEN now + 1 ELSE now
        /\ lastRuntimeUpdateTime' = IF res.stored THEN now + 1 ELSE lastRuntimeUpdateTime
        /\ call' = [op |-> "UpdateRuntime", arg |-> r, pre |-> runtime,
                    preTime |-> lastRuntimeUpdateTime]
        /\ UNCHANGED <<lastAction, lastActionTime, killingAttempts, pc, act>>
    /\ UNCHANGED notTracked

\* RunAction, lines 159-162: under t.Lock() the action and the time of the
\* call are recorded, then the lock is released before the action runs.
RecordAction(p, a) ==
    /\ now < MaxTime
    /\ lastAction' = a
    /\ lastActionTime' = now + 1
    /\ now' = now + 1
    /\ act' = [act EXCEPT ![p] = a]
    /\ pc' = [pc EXCEPT ![p] = "running"]

\* A caller (a goal-state worker, a status-update handler) enters RunAction.
RunActionBegin(p) ==
    /\ pc[p] = "idle"
    /\ \E a \in TaskActions : RecordAction(p, a)
    /\ call' = [op |-> "RunActionBegin", caller |-> p]
    /\ UNCHANGED <<runtime, lastRuntimeUpdateTime, killingAttempts>>
    /\ UNCHANGED notTracked

\* RunAction returns (reschedule, err); failed tells whether the step that
\* the action executed failed.
Return(p, reschedule, err, failed) ==
    /\ pc' = [pc EXCEPT ![p] = "idle"]
    /\ call' = [op |-> "RunAction", caller |-> p, action |-> act[p],
                reschedule |-> reschedule, err |-> err, failed |-> failed]
    /\ act' = [act EXCEPT ![p] = ""]

\* The cache is written through t.UpdateRuntime(r) from inside an action.
StoreRuntime(r) ==
    LET res == UpdateRuntime(runtime, r) IN
    /\ res.stored => now < MaxTime
    /\ runtime' = res.runtime
    /\ now' = IF res.stored THEN now + 1 ELSE now
    /\ lastRuntimeUpdateTime' = IF res.stored THEN now + 1 ELSE lastRuntimeUpdateTime

\* case NoAction
RunNoAction(p) ==
    /\ pc[p] = "running" /\ act[p] = NoAction
    /\ Return(p, FALSE, FALSE, FALSE)
    /\ UNCHANGED <<runtime, lastRuntimeUpdateTime, lastAction, lastActionTime,
                   killingAttempts, now>>
    /\ UNCHANGED notTracked

\* case KilledAction: t.ClearKillAttempts()
RunKilledAction(p) ==
    /\ pc[p] = "running" /\ act[p] = KilledAction
    /\ killingAttempts' = 0
    /\ Return(p, FALSE, FALSE, FALSE)
    /\ UNCHANGED <<runtime, lastRuntimeUpdateTime, lastAction, lastActionTime, now>>
    /\ UNCHANGED notTracked

\* case StartAction: err = t.start(ctx); reschedule only on error.
RunStartAction(p) ==
    /\ pc[p] = "running" /\ act[p] = StartAction
    /\ \E err \in BOOLEAN : Return(p, err, err, err)
    /\ UNCHANGED <<runtime, lastRuntimeUpdateTime, lastAction, lastActionTime,
                   killingAttempts, now>>
    /\ UNCHANGED notTracked

\* t.stop(ctx): the kill is issued and the attempt counted.
stop(err) ==
    /\ killingAttempts < MaxKillAttempts
    /\ killingAttempts' = killingAttempts + 1

\* case StopAction: err = t.stop(ctx); reschedule only on error.
RunStopAction(p) ==
    /\ pc[p] = "running" /\ act[p] = StopAction
    /\ \E err \in BOOLEAN : stop(err) /\ Return(p, err, err, err)
    /\ UNCHANGED <<runtime, lastRuntimeUpdateTime, lastAction, lastActionTime, now>>
    /\ UNCHANGED notTracked

\* case InitializeAction, LaunchRetryAction, NotifyLaunchedTasksAction:
\* err = t.<step>(ctx), reschedule stays true.
RunStepAction(p) ==
    /\ pc[p] = "running"
    /\ act[p] \in {InitializeAction, LaunchRetryAction, NotifyLaunchedTasksAction}
    /\ \E err \in BOOLEAN : Return(p, TRUE, err, err)
    /\ UNCHANGED <<runtime, lastRuntimeUpdateTime, lastAction, lastActionTime,
                   killingAttempts, now>>
    /\ UNCHANGED notTracked

\* case FailAction. "runtime, err :=" declares a new err inside the case, so
\* the error of UpdateTaskRuntime is assigned to that inner variable and the
\* err returned at the end of RunAction stays nil.
RunFailAction(p) ==
    /\ pc[p] = "running" /\ act[p] = FailAction
    /\ \/ \* GetTaskRuntime fails: return true, err
          /\ Return(p, TRUE, TRUE, TRUE)
          /\ UNCHANGED <<runtime, lastRuntimeUpdateTime, now>>
       \/ \* the FAILED runtime is written and cached
          /\ \E rev \in 0..MaxRevision : StoreRuntime([revision |-> rev, state |-> "FAILED"])
          /\ Return(p, TRUE, FALSE, FALSE)
       \/ \* UpdateTaskRuntime fails
          /\ Return(p, TRUE, FALSE, TRUE)
          /\ UNCHANGED <<runtime, lastRuntimeUpdateTime, now>>
    /\ UNCHANGED <<lastAction, lastActionTime, killingAttempts>>
    /\ UNCHANGED notTracked

\* A reload that returns nil when the stored runtime was loaded.
RunReloadTaskRuntimeNilOnSuccess(p) ==
    /\ pc[p] = "running" /\ act[p] = ReloadTaskRuntime
    /\ \/ /\ Return(p, TRUE, TRUE, TRUE)
          /\ UNCHANGED <<runtime, lastRuntimeUpdateTime, now>>
       \/ /\ \E r \in RuntimeInfos : StoreRuntime(r)
          /\ Return(p, TRUE, FALSE, FALSE)
    /\ UNCHANGED <<lastAction, lastActionTime, killingAttempts>>
    /\ UNCHANGED notTracked

\* case ReloadTaskRuntime: t.reloadRuntime always returns an error.
RunReloadTaskRuntime(p) ==
    /\ pc[p] = "running" /\ act[p] = ReloadTaskRuntime
    /\ \/ \* GetTaskRuntime fails
          /\ Return(p, TRUE, TRUE, TRUE)
          /\ UNCHANGED <<runtime, lastRuntimeUpdateTime, now>>
       \/ \* the stored runtime is loaded: "runtime reloaded after error"
          /\ \E r \in RuntimeInfos : StoreRuntime(r)
          /\ Return(p, TRUE, TRUE, FALSE)
    /\ UNCHANGED <<lastAction, lastActionTime, killingAttempts>>
    /\ UNCHANGED notTracked

\* case PreemptAction. "action, err :=" declares a new err inside the case:
\* on a policy read error the wrapped error is assigned to it and lost at
\* break. Otherwise RunAction is called again with the post-preempt action.
RunPreemptAction(p) ==
    /\ pc[p] = "running" /\ act[p] = PreemptAction
    /\ \/ /\ Return(p, TRUE, FALSE, TRUE)
          /\ UNCHANGED <<lastAction, lastActionTime, now>>
       \/ /\ \E a \in {NoAction, InitializeAction} : RecordAction(p, a)
          /\ call' = [op |-> "RunActionBegin", caller |-> p]
    /\ UNCHANGED <<runtime, lastRuntimeUpdateTime, killingAttempts>>
    /\ UNCHANGED notTracked

\* case FailRetryAction: reschedule, err = t.failureRetry(ctx)
RunFailRetryAction(p) ==
    /\ pc[p] = "running" /\ act[p] = FailRetryAction
    /\ \E reschedule \in BOOLEAN, err \in BOOLEAN : Return(p, reschedule, err, err)
    /\ UNCHANGED <<runtime, lastRuntimeUpdateTime, lastAction, lastActionTime,
                   killingAttempts, now>>
    /\ UNCHANGED notTracked

\* default: "no command configured for running task action"
RunUnknownAction(p) ==
    /\ pc[p] = "running" /\ act[p] = UseGoalVersionAction
    /\ Return(p, TRUE, TRUE, TRUE)
    /\ UNCHANGED <<runtime, lastRuntimeUpdateTime, lastAction, lastActionTime,
                   killingAttempts, now>>
    /\ UNCHANGED notTracked

\* The tracked task while another component is examined.
TrackedIdle == TrackedInit

\* The scheduler manager before InitManager: nothing started.
SchedulerIdle ==
    /\ started = 0
    /\ shutdown = 0
    /\ spc = "notStarted"
    /\ tasks = <<>>
    /\ nTasks = 0
    /\ launched = {}
    /\ iter = [op |-> "none"]

\* The batch strategy with no PlaceOnce call under way.
BatchIdle ==
    /\ assignments = <<>>
    /\ hosts = <<>>
    /\ unassigned = <<>>
    /\ hostIdx = 1
    /\ hostOf = <<>>
    /\ bpc = "idle"
    /\ lastFill = [op |-> "none"]

\* The batch strategy with no Filters call under way.
FiltersIdle ==
    /\ filterInput = <<>>
    /\ fIdx = 1
    /\ groups = <<>>
    /\ filters = <<>>
    /\ fpc = "idle"

\* An empty offer pool at time 0.
PoolIdle ==
    /\ poolOffers = <<>>
    /\ offerHoldTime = 1
    /\ poolNow = 0
    /\ lastRemove = [op |-> "none"]

\* Job recovery with no job and no recovery under way.
RecoveryIdle ==
    /\ recNow = 0
    /\ lastRecoveryTime = 0
    /\ leader = FALSE
    /\ jobConfig = NIL
    /\ jobRuntime = NIL
    /\ taskStore = {}
    /\ resmgrQueue = {}
    /\ rpc = "idle"
    /\ recBatch = 0
    /\ recIdx = 0
    /\ tasksToRequeue = <<>>
    /\ rec = [op |-> "none"]
    /\ lastCall = [op |-> "none"]

\* The update engine with no update and no job tracked.
UpdateIdle ==
    /\ updTracked = FALSE
    /\ jobTracked = FALSE
    /\ instancesAdded = <<>>
    /\ instancesUpdated = <<>>
    /\ instancesRemoved = <<>>
    /\ instancesCurrent = {}
    /\ instancesDone = {}
    /\ instancesFailed = {}
    /\ batchSize = 0
    /\ updState = "INVALID"
    /\ maxFailureInstances = 0
    /\ rollbackOnFailure = FALSE
    /\ jobVersion = 0
    /\ prevVersion = 0
    /\ instanceCount = 0
    /\ prevInstanceCount = 0
    /\ taskRuntimes = <<>>
    /\ versionSwaps = 0
    /\ updRun = [op |-> "none"]

\* No task was started yet.
StartIdle ==
    /\ lastStart = [op |-> "none"]

\* A server with no life cycles that was never elected.
ServerIdle ==
    /\ llcs = <<>>
    /\ srvPc = [cb |-> "none", i |-> 0]
    /\ srvRunning = {}
    /\ startOrder = <<>>
    /\ stopOrder = <<>>

\* No status update was translated yet.
TranslateIdle ==
    /\ statusLog = <<>>

\* No Mesos task id was parsed yet.
ParseIdle ==
    /\ lastParse = [op |-> "none"]

\* An offer pruner that was never started, nobody calling it.
PrunerIdle ==
    /\ runningState = 0
    /\ stopPrunerChan = 0
    /\ startedChan = 0
    /\ prunerMutex = "free"
    /\ callerPc = [c \in {"c1", "c2"} |-> "idle"]
    /\ loops = <<>>
    /\ lastPrunerCall = [op |-> "none"]

\* A resource pool tree with nothing but its root, nothing validated yet.
RespoolIdle ==
    /\ resTree = [id \in {"root", "respool1", "respool2"} |->
                     IF id = "root"
                     THEN [name |-> "root", parent |-> "",
                           resources |-> [kind \in {"cpu", "mem"} |->
                                             [reservation |-> 1, limit |-> 1]]]
                     ELSE [nil |-> TRUE]]
    /\ lastValidate = [op |-> "none"]

\* A task manager over empty stores, List never called.
ListIdle ==
    /\ listJobs = {}
    /\ listTasks = {}
    /\ lastList = [op |-> "none"]

InitTracked == TrackedInit /\ SchedulerIdle /\ BatchIdle /\ FiltersIdle /\ PoolIdle /\ RecoveryIdle /\ UpdateIdle /\ StartIdle /\ ServerIdle /\ TranslateIdle /\ ParseIdle /\ PrunerIdle /\ RespoolIdle /\ ListIdle

NextTracked ==
    \/ UpdateRuntimeCall
    \/ \E p \in Callers : RunActionBegin(p)
    \/ \E p \in Callers : RunNoAction(p)
    \/ \E p \in Callers : RunKilledAction(p)
    \/ \E p \in Callers : RunStartAction(p)
    \/ \E p \in Callers : RunStopAction(p)
    \/ \E p \in Callers : RunStepAction(p)
    \/ \E p \in Callers : RunFailAction(p)
    \/ \E p \in Callers : RunReloadTaskRuntime(p)
    \/ \E p \in Callers : RunPreemptAction(p)
    \/ \E p \in Callers : RunFailRetryAction(p)
    \/ \E p \in Callers : RunUnknownAction(p)

SpecTracked == InitTracked /\ [][NextTracked]_vars

(***************************************************************************)
(* Claims about the tracked task                                           *)
(***************************************************************************)

\* The callers that are between RunAction's lock section and its return.
Running == {p \in Callers : pc[p] = "running"}

\* C1: at most one action: two executions of RunAction on the task never
\* overlap in time, whatever the interleaving of the concurrent callers.
C1_AtMostOneAction == Cardinality(Running) <= 1

\* C2: stale update dropped: an UpdateRuntime call whose runtime has a lower
\* revision than the cached runtime leaves the cached runtime and
\* lastRuntimeUpdateTime unchanged and changes no other field of the task.
C2_StaleUpdateDropped ==
    [][(/\ call'.op = "UpdateRuntime"
        /\ runtime # NIL
        /\ GetVersion(call'.arg) < GetVersion(runtime))
       => UNCHANGED <<runtime, lastRuntimeUpdateTime, lastAction, lastActionTime,
                      killingAttempts, now, pc, act>>]_vars

\* A stale UpdateRuntime call has just been made on a cached runtime.
C2_Witness ==
    /\ call.op = "UpdateRuntime"
    /\ call.pre # NIL
    /\ GetVersion(call.arg) < GetVersion(call.pre)
    /\ runtime = call.pre

\* C3: an UpdateRuntime call whose runtime has the cached revision and another
\* content invalidates the cache: afterwards the cached runtime is nil.
C3_SameRevisionInvalidates ==
    (/\ call.op = "UpdateRuntime"
     /\ call.pre # NIL
     /\ call.arg # call.pre
     /\ GetVersion(call.arg) = GetVersion(call.pre))
    => runtime = NIL

\* C4: monotonic revision: an UpdateRuntime call replaces the cached runtime
\* and sets lastRuntimeUpdateTime only when its revision is greater than the
\* cached one, so the revisions installed in the cache strictly increase.
C4_MonotonicRevision ==
    (/\ call.op = "UpdateRuntime"
     /\ call.pre # NIL
     /\ (runtime # call.pre \/ lastRuntimeUpdateTime # call.preTime))
    => GetVersion(call.arg) > GetVersion(call.pre)

(***************************************************************************)
(* scheduler: schedulerManager (src/client/respool_actions.go, lines 57 on) *)
(* and util.CanTakeTask (src/unnamed/part_002)                             *)
(***************************************************************************)

\* Bounds of the scheduler model: the configured dequeue limits.
TaskDequeueLimit == 2
OfferDequeueLimit == 2

\* The values a scalar resource (cpus, mem, disk) takes in this model.
ScalarValues == 0..1

\* task.TaskInfo, reduced to its id and its Config.Resource limits.
TaskInfos == [id : 1..TaskDequeueLimit, cpus : ScalarValues, mem : ScalarValues,
              disk : ScalarValues]

\* The non-empty answers of TaskQueue.Dequeue: up to limit distinct tasks.
DequeuedTaskLists ==
    UNION {{ts \in [1..n -> TaskInfos] : \A i \in 1..n : ts[i].id = i} :
           n \in 1..TaskDequeueLimit}

\* An offer without any scalar resource of role "*".
NoStarRole == [star |-> FALSE]

\* util.GetOfferScalarResourceSummary(offer): role -> name -> value, reduced
\* to the entry of role "*", the only role ConvertToMesosTaskInfo asks for.
OfferSummaries ==
    {NoStarRole} \cup [cpus : ScalarValues, mem : ScalarValues, disk : ScalarValues]

\* The non-empty answers of OfferPool.GetOffers: up to limit offers.
AcquiredOfferLists == UNION {[1..n -> OfferSummaries] : n \in 1..OfferDequeueLimit}

\* util.CanTakeTask: the check of its first loop.
CanTakeTask(summary, t) ==
    /\ summary # NoStarRole
    /\ ~(summary.cpus < t.cpus)
    /\ ~(summary.mem < t.mem)
    /\ ~(summary.disk < t.disk)

\* util.CanTakeTask: the subtraction of its second loop.
TakeTask(summary, t) ==
    [cpus |-> summary.cpus - t.cpus, mem |-> summary.mem - t.mem,
     disk |-> summary.disk - t.disk]

\* The selection loop of assignTasksToOffer: at most n times, the last task
\* of ts is taken when the remainder of the offer can take it.
RECURSIVE SelectTasks(_, _, _, _)
SelectTasks(remain, ts, selected, n) ==
    IF n = 0 \/ ~CanTakeTask(remain, ts[Len(ts)])
    THEN [tasks |-> ts, selected |-> selected]
    ELSE SelectTasks(TakeTask(remain, ts[Len(ts)]), SubSeq(ts, 1, Len(ts) - 1),
                     Append(selected, ts[Len(ts)]), n - 1)

\* assignTasksToOffer(tasks, offer) with the outcome of launcher.LaunchTasks:
\* the tasks returned, the tasks selected, whether LaunchTasks was called and
\* whether it failed. No branch returns the offer or requeues a task.
assignTasksToOffer(ts, offer, launchOk) ==
    LET sel == SelectTasks(offer, ts, <<>>, Len(ts)) IN
    [tasks |-> sel.tasks,
     selected |-> {sel.selected[i].id : i \in 1..Len(sel.selected)},
     launchCalled |-> Len(sel.selected) > 0,
     launchErr |-> Len(sel.selected) > 0 /\ ~launchOk,
     offerReturned |-> FALSE,
     requeued |-> {}]

SchedulerInit == SchedulerIdle

\* Start(): the first call swaps started from 0 to 1 and spawns workLoop.
Start ==
    /\ started = 0
    /\ started' = 1
    /\ spc' = "workLoop"
    /\ UNCHANGED <<shutdown, tasks, nTasks, launched, iter>>
    /\ UNCHANGED notScheduler

\* Start() again: "Scheduler already started".
StartAgain ==
    /\ started = 1
    /\ UNCHANGED schedulerVars
    /\ UNCHANGED notScheduler

\* Stop(): shutdown is set to 1.
Stop ==
    /\ shutdown' = 1
    /\ UNCHANGED <<started, spc, tasks, nTasks, launched, iter>>
    /\ UNCHANGED notScheduler

\* workLoop: "for shutdown := atomic.LoadInt32(&s.shutdown); shutdown == 0; {"
\* loads s.shutdown once, in the init statement; the condition reads the copy.
WorkLoopEnter ==
    /\ spc = "workLoop"
    /\ spc' = IF shutdown = 0 THEN "getTasks" ELSE "exited"
    /\ UNCHANGED <<started, shutdown, tasks, nTasks, launched, iter>>
    /\ UNCHANGED notScheduler

\* workLoop: getTasks fails or returns no task; sleep GetTaskTimeout.
GetTasksNone ==
    /\ spc = "getTasks"
    /\ spc' = "taskSleep"
    /\ UNCHANGED <<started, shutdown, tasks, nTasks, launched, iter>>
    /\ UNCHANGED notScheduler

TaskSleepDone ==
    /\ spc = "taskSleep"
    /\ spc' = "getTasks"
    /\ UNCHANGED <<started, shutdown, tasks, nTasks, launched, iter>>
    /\ UNCHANGED notScheduler

\* workLoop: getTasks returns tasks; launchTasksLoop(tasks) is called.
GetTasks ==
    /\ spc = "getTasks"
    /\ \E ts \in DequeuedTaskLists :
        /\ tasks' = ts
        /\ nTasks' = Len(ts)
    /\ launched' = {}
    /\ iter' = [op |-> "none"]
    /\ spc' = "launchTasksLoop"
    /\ UNCHANGED <<started, shutdown>>
    /\ UNCHANGED notScheduler

\* launchTasksLoop: the same one-time load of s.shutdown. When it is set the
\* loop body never runs and the function returns with its tasks.
LaunchLoopEnter ==
    /\ spc = "launchTasksLoop"
    /\ IF shutdown = 0
       THEN spc' = "getOffers" /\ UNCHANGED tasks
       ELSE spc' = "getTasks" /\ tasks' = <<>>
    /\ UNCHANGED <<started, shutdown, nTasks, launched, iter>>
    /\ UNCHANGED notScheduler

\* launchTasksLoop: getOffers fails or returns no offer; sleep GetOfferTimeout
\* and continue.
GetOffersNone ==
    /\ spc = "getOffers"
    /\ spc' = "offerSleep"
    /\ iter' = [op |-> "none"]
    /\ UNCHANGED <<started, shutdown, tasks, nTasks, launched>>
    /\ UNCHANGED notScheduler

OfferSleepDone ==
    /\ spc = "offerSleep"
    /\ spc' = "getOffers"
    /\ UNCHANGED <<started, shutdown, tasks, nTasks, launched, iter>>
    /\ UNCHANGED notScheduler

\* launchTasksLoop: getOffers returns offers; offers[0] alone is used.
\* The function returns (back in workLoop) once no task is left.
GetOffersAndAssign ==
    /\ spc = "getOffers"
    /\ \E offers \in AcquiredOfferLists, launchOk \in BOOLEAN :
        LET res == assignTasksToOffer(tasks, offers[1], launchOk) IN
        /\ tasks' = res.tasks
        /\ launched' = IF res.launchCalled /\ ~res.launchErr
                       THEN launched \cup res.selected ELSE launched
        /\ iter' = [op |-> "assign",
                    acquired |-> Len(offers),
                    launchedWith |-> IF res.launchCalled THEN {1} ELSE {},
                    returned |-> IF res.offerReturned THEN {1} ELSE {},
                    selected |-> res.selected,
                    requeued |-> res.requeued,
                    launchErr |-> res.launchErr]
        /\ spc' = IF Len(res.tasks) = 0 THEN "getTasks" ELSE "getOffers"
    /\ UNCHANGED <<started, shutdown, nTasks>>
    /\ UNCHANGED notScheduler

InitScheduler == TrackedIdle /\ SchedulerInit /\ BatchIdle /\ FiltersIdle /\ PoolIdle /\ RecoveryIdle /\ UpdateIdle /\ StartIdle /\ ServerIdle /\ TranslateIdle /\ ParseIdle /\ PrunerIdle /\ RespoolIdle /\ ListIdle

\* The steps of the workLoop goroutine.
WorkLoopStep ==
    \/ WorkLoopEnter
    \/ GetTasksNone
    \/ TaskSleepDone
    \/ GetTasks
    \/ LaunchLoopEnter
    \/ GetOffersNone
    \/ OfferSleepDone
    \/ GetOffersAndAssign

NextScheduler ==
    \/ Start
    \/ StartAgain
    \/ Stop
    \/ WorkLoopEnter
    \/ GetTasksNone
    \/ TaskSleepDone
    \/ GetTasks
    \/ LaunchLoopEnter
    \/ GetOffersNone
    \/ OfferSleepDone
    \/ GetOffersAndAssign

SpecScheduler == InitScheduler /\ [][NextScheduler]_vars

\* The goroutine keeps running: a step of workLoop that stays possible is
\* eventually taken. What getTasks and getOffers answer is not constrained.
FairSpecScheduler ==
    SpecScheduler /\ WF_vars(WorkLoopStep)

(***************************************************************************)
(* Claims about the scheduler                                              *)
(***************************************************************************)

\* The ids of the tasks still pending in launchTasksLoop.
Pending == {tasks[i].id : i \in 1..Len(tasks)}

\* C5: offer conservation: every offer obtained from getOffers in a pass of
\* launchTasksLoop is passed to LaunchTasks or returned to the pool in that
\* pass.
C5_OfferConservation ==
    iter.op = "assign" =>
        \A o \in 1..iter.acquired : o \in iter.launchedWith \/ o \in iter.returned

\* C6: on launch error the offer is returned and every task selected for the
\* launch is still pending or requeued, never lost.
C6_LaunchErrorRequeues ==
    (iter.op = "assign" /\ iter.launchErr) =>
        /\ 1 \in iter.returned
        /\ \A t \in iter.selected : t \in Pending \/ t \in iter.requeued

\* C7: the offer loop caps its retries: once in launchTasksLoop's loop, the
\* dispatcher eventually leaves it, also when no offer ever arrives.
C7_RetriesCapped ==
    (spc \in {"getOffers", "offerSleep"}) ~> (spc \notin {"getOffers", "offerSleep"})

\* C34: after Stop() the workLoop and a running launchTasksLoop exit: once
\* shutdown is set, a loop that comes back to its condition after a sleep
\* does not go on to another task dequeue or offer acquisition.
C34_StopEndsLoops ==
    [][(shutdown = 1 /\ spc \in {"taskSleep", "offerSleep"}) =>
           spc' \notin {"getTasks", "getOffers"}]_vars

(***************************************************************************)
(* placement/plugins/batch (src/jobmgr/tracked/task.go, lines 434 on)      *)
(***************************************************************************)

\* Bounds of the batch model: the lengths of the lists given to PlaceOnce.
MaxAssignments == 3
MaxHosts == 2

\* scalar.Resources: cpu, mem, disk, gpu.
Res(c, m, d, g) == [cpu |-> c, mem |-> m, disk |-> d, gpu |-> g]

\* The resmgr tasks of this model (NumPorts and Resource): each scalar and
\* the ports are the binding demand of some task.
TaskDemands ==
    { [numPorts |-> 1, resource |-> Res(1, 1, 0, 0)],
      [numPorts |-> 2, resource |-> Res(2, 1, 0, 0)],
      [numPorts |-> 0, resource |-> Res(1, 0, 1, 0)],
      [numPorts |-> 0, resource |-> Res(0, 0, 0, 1)],
      [numPorts |-> 0, resource |-> Res(0, 2, 0, 0)] }

\* The host offers of this model: the port ranges of the "ports" resources
\* and the scalar resources.
HostOffers ==
    { [ranges |-> << <<100, 100>> >>, scalar |-> Res(8, 8, 0, 0)],
      [ranges |-> << <<100, 103>> >>, scalar |-> Res(4, 4, 1, 1)],
      [ranges |-> << <<100, 100>>, <<200, 201>> >>, scalar |-> Res(2, 1, 1, 0)],
      [ranges |-> << >>, scalar |-> Res(1, 3, 0, 1)] }

\* The lists PlaceOnce may be given. An assignment carries its position as
\* its identity (the list holds pointers); none has a host yet.
AssignmentLists ==
    UNION {{[i \in 1..n |-> [id |-> i, numPorts |-> f[i].numPorts,
                             resource |-> f[i].resource]] :
            f \in [1..n -> TaskDemands]} : n \in 0..MaxAssignments}

HostLists == UNION {[1..n -> HostOffers] : n \in 0..MaxHosts}

\* batch.availablePorts: the sum of End - Begin + 1 over the port ranges.
RECURSIVE availablePorts(_)
availablePorts(ranges) ==
    IF ranges = <<>> THEN 0
    ELSE (Head(ranges)[2] - Head(ranges)[1] + 1) + availablePorts(Tail(ranges))

\* scalar.Resources.TrySubtract: the difference, when no scalar of the usage
\* exceeds what remains.
TrySubtract(remain, usage) ==
    IF /\ usage.cpu <= remain.cpu
       /\ usage.mem <= remain.mem
       /\ usage.disk <= remain.disk
       /\ usage.gpu <= remain.gpu
    THEN [ok |-> TRUE,
          result |-> Res(remain.cpu - usage.cpu, remain.mem - usage.mem,
                         remain.disk - usage.disk, remain.gpu - usage.gpu)]
    ELSE [ok |-> FALSE, result |-> remain]

\* fillOffer's loop with "remainPorts -= usedPorts" left out.
RECURSIVE fillLoopPortsNotCounted(_, _, _, _)
fillLoopPortsNotCounted(i, remainPorts, remain, list) ==
    IF i > Len(list) THEN [placed |-> i - 1, rest |-> <<>>]
    ELSE IF list[i].numPorts > remainPorts
    THEN [placed |-> i - 1, rest |-> SubSeq(list, i, Len(list))]
    ELSE LET sub == TrySubtract(remain, list[i].resource) IN
         IF ~sub.ok
         THEN [placed |-> i - 1, rest |-> SubSeq(list, i, Len(list))]
         ELSE fillLoopPortsNotCounted(i + 1, remainPorts, sub.result, list)

\* fillOffer's loop returning unassigned[i+1:] for unassigned[i:].
RECURSIVE fillLoopOffByOne(_, _, _, _)
fillLoopOffByOne(i, remainPorts, remain, list) ==
    IF i > Len(list) THEN [placed |-> i - 1, rest |-> <<>>]
    ELSE IF list[i].numPorts > remainPorts
    THEN [placed |-> i - 1, rest |-> SubSeq(list, i + 1, Len(list))]
    ELSE LET sub == TrySubtract(remain, list[i].resource) IN
         IF ~sub.ok
         THEN [placed |-> i - 1, rest |-> SubSeq(list, i + 1, Len(list))]
         ELSE fillLoopOffByOne(i + 1, remainPorts - list[i].numPorts, sub.result, list)

\* The loop of fillOffer from index i on, with the ports and scalars that
\* remain: how many assignments of the list got the offer (the first
\* placed ones) and the list returned.
RECURSIVE fillLoop(_, _, _, _)
fillLoop(i, remainPorts, remain, list) ==
    IF i > Len(list) THEN [placed |-> i - 1, rest |-> <<>>]      \* return nil
    ELSE IF list[i].numPorts > remainPorts                       \* usedPorts > remainPorts
    THEN [placed |-> i - 1, rest |-> SubSeq(list, i, Len(list))] \* return unassigned[i:]
    ELSE LET sub == TrySubtract(remain, list[i].resource) IN
         IF ~sub.ok
         THEN [placed |-> i - 1, rest |-> SubSeq(list, i, Len(list))]
         ELSE fillLoop(i + 1, remainPorts - list[i].numPorts, sub.result, list)

\* batch.fillOffer(offer, unassigned).
fillOffer(offer, list) == fillLoop(1, availablePorts(offer.ranges), offer.scalar, list)

\* The body of PlaceOnce's loop with the result of fillOffer dropped.
placeOnceStepKeepsList(offer, list) == [fillOffer(offer, list) EXCEPT !.rest = list]

\* The body of PlaceOnce's loop: unassigned = batch.fillOffer(host, unassigned).
placeOnceStep(offer, list) == fillOffer(offer, list)

\* PlaceOnce is called with a list of assignments and a list of hosts.
BatchInit ==
    /\ assignments \in AssignmentLists
    /\ hosts \in HostLists
    /\ unassigned = assignments
    /\ hostIdx = 1
    /\ hostOf = [i \in 1..Len(assignments) |-> <<>>]
    /\ bpc = "PlaceOnce"
    /\ lastFill = [op |-> "none"]

\* One pass of "for _, host := range hosts": fillOffer on the next host;
\* placement.SetHost(offer) on each assignment it placed.
FillNextHost ==
    /\ bpc = "PlaceOnce"
    /\ hostIdx <= Len(hosts)
    /\ LET res == placeOnceStep(hosts[hostIdx], unassigned)
           placed == {unassigned[k].id : k \in 1..res.placed}
       IN /\ hostOf' = [i \in 1..Len(assignments) |->
                            IF i \in placed THEN Append(hostOf[i], hostIdx)
                            ELSE hostOf[i]]
          /\ unassigned' = res.rest
          /\ lastFill' = [op |-> "fillOffer", host |-> hostIdx,
                          input |-> unassigned, output |-> res.rest,
                          placed |-> placed]
    /\ hostIdx' = hostIdx + 1
    /\ UNCHANGED <<assignments, hosts, bpc>>
    /\ UNCHANGED notBatch

\* The range loop is over: PlaceOnce returns.
PlaceOnceReturn ==
    /\ bpc = "PlaceOnce"
    /\ hostIdx > Len(hosts)
    /\ bpc' = "done"
    /\ UNCHANGED <<assignments, hosts, unassigned, hostIdx, hostOf, lastFill>>
    /\ UNCHANGED notBatch

InitBatch == TrackedIdle /\ SchedulerIdle /\ BatchInit /\ FiltersIdle /\ PoolIdle /\ RecoveryIdle /\ UpdateIdle /\ StartIdle /\ ServerIdle /\ TranslateIdle /\ ParseIdle /\ PrunerIdle /\ RespoolIdle /\ ListIdle

NextBatch ==
    \/ FillNextHost
    \/ PlaceOnceReturn

SpecBatch == InitBatch /\ [][NextBatch]_vars

\* The assignments SetHost was called on with host h.
GivenTo(h) ==
    {i \in 1..Len(assignments) : \E k \in 1..Len(hostOf[i]) : hostOf[i][k] = h}

\* The ports and scalars the assignments of S ask for, added up.
RECURSIVE TotalDemand(_)
TotalDemand(S) ==
    IF S = {} THEN [ports |-> 0, scalar |-> Res(0, 0, 0, 0)]
    ELSE LET i == CHOOSE x \in S : TRUE
             rest == TotalDemand(S \ {i})
             r == assignments[i].resource
         IN [ports |-> assignments[i].numPorts + rest.ports,
             scalar |-> Res(r.cpu + rest.scalar.cpu, r.mem + rest.scalar.mem,
                            r.disk + rest.scalar.disk, r.gpu + rest.scalar.gpu)]

\* The demand d is within the ports and the scalars of the offer.
Within(d, offer) ==
    /\ d.ports <= availablePorts(offer.ranges)
    /\ d.scalar.cpu <= offer.scalar.cpu
    /\ d.scalar.mem <= offer.scalar.mem
    /\ d.scalar.disk <= offer.scalar.disk
    /\ d.scalar.gpu <= offer.scalar.gpu

\* C8: after fillOffer, the assignments given an offer ask in total for no
\* more cpu, mem, disk and gpu than the offer has, and for no more ports
\* than the offer's port ranges hold.
C8_PlacementSufficiency ==
    \A h \in 1..Len(hosts) : Within(TotalDemand(GivenTo(h)), hosts[h])

\* fillOffer gave an offer two assignments or more that use up its ports,
\* and turned another assignment down.
C8_Witness ==
    /\ lastFill.op = "fillOffer"
    /\ Cardinality(lastFill.placed) >= 2
    /\ TotalDemand(lastFill.placed).ports = availablePorts(hosts[lastFill.host].ranges)
    /\ lastFill.output # <<>>

\* The first n assignments of the list.
Prefix(list, n) == {list[j].id : j \in 1..n}

\* The length of the longest prefix of the list whose demand, added up, is
\* within the offer.
LongestFittingPrefix(offer, list) ==
    CHOOSE n \in 0..Len(list) :
        /\ Within(TotalDemand(Prefix(list, n)), offer)
        /\ \A m \in (n + 1)..Len(list) : ~Within(TotalDemand(Prefix(list, m)), offer)

\* The ports and scalars of the assignments of a list, without identities.
Demands(list) ==
    [j \in 1..Len(list) |-> [numPorts |-> list[j].numPorts, resource |-> list[j].resource]]

\* An offer of 4 cpu, 4 mem and 4 ports, and one of 1 port; a task of 2 cpu,
\* 1 mem and 2 ports, and one of 1 port.
FourPortOffer == [ranges |-> << <<100, 103>> >>, scalar |-> Res(4, 4, 1, 1)]
OnePortOffer == [ranges |-> << <<100, 100>> >>, scalar |-> Res(8, 8, 0, 0)]
TwoPortTask == [numPorts |-> 2, resource |-> Res(2, 1, 0, 0)]
OnePortTask == [numPorts |-> 1, resource |-> Res(1, 1, 0, 0)]

\* C9: fillOffer gives the offer to the longest prefix of the list whose
\* ports and scalars, added up, fit the offer, to nothing after the first
\* assignment that does not fit, and returns the rest of the list in its
\* order (nothing when all fit).
C9_LongestFittingPrefix ==
    lastFill.op = "fillOffer" =>
        LET k == LongestFittingPrefix(hosts[lastFill.host], lastFill.input)
        IN /\ lastFill.placed = Prefix(lastFill.input, k)
           /\ GivenTo(lastFill.host) = Prefix(lastFill.input, k)
           /\ lastFill.output = SubSeq(lastFill.input, k + 1, Len(lastFill.input))
           /\ (/\ hosts[lastFill.host] = FourPortOffer
               /\ Demands(lastFill.input) = <<TwoPortTask, TwoPortTask>>)
                  => lastFill.output = <<>>
           /\ (/\ hosts[lastFill.host] = OnePortOffer
               /\ Demands(lastFill.input) = <<OnePortTask, OnePortTask>>)
                  => /\ lastFill.placed = {lastFill.input[1].id}
                     /\ lastFill.output = <<lastFill.input[2]>>

\* fillOffer placed an assignment, stopped at one that does not fit, and
\* an assignment after that one would have fitted what was left.
C9_Witness ==
    /\ lastFill.op = "fillOffer"
    /\ lastFill.placed # {}
    /\ \E j \in 2..Len(lastFill.output) :
           Within(TotalDemand(lastFill.placed \cup {lastFill.output[j].id}),
                  hosts[lastFill.host])

\* The assignments without a host, in the order of the input list.
StillUnassigned == SelectSeq(assignments, LAMBDA a : hostOf[a.id] = <<>>)

\* C10: PlaceOnce visits the hosts in input order and offers each the
\* assignments still without a host, in input order; once it has returned,
\* no assignment has more than one host and the placed assignments are a
\* prefix of the input list.
C10_PlaceOncePrefix ==
    /\ lastFill.op = "fillOffer" => lastFill.host = hostIdx - 1
    /\ unassigned = StillUnassigned
    /\ bpc = "done" =>
           /\ \A i \in 1..Len(assignments) : Len(hostOf[i]) <= 1
           /\ \A j \in 1..Len(assignments) :
                  hostOf[j] # <<>> => \A i \in 1..(j - 1) : hostOf[i] # <<>>
           /\ \A i, j \in 1..Len(assignments) :
                  (i < j /\ hostOf[i] # <<>> /\ hostOf[j] # <<>>)
                      => hostOf[i][1] <= hostOf[j][1]

\* PlaceOnce has returned with an assignment on the first host, one on the
\* second and one on no host.
C10_Witness ==
    /\ bpc = "done"
    /\ GivenTo(1) # {}
    /\ GivenTo(2) # {}
    /\ unassigned # <<>>

(***************************************************************************)
(* batch.Filters (src/jobmgr/tracked/task.go, lines 515-545)               *)
(***************************************************************************)

\* The scheduling constraints of this model: a message of two scalar
\* fields, the second one all defaults.
Constraints == {[type |-> 1, requirement |-> 1], [type |-> 0, requirement |-> 0]}

\* The resmgr tasks Filters is given: Resource (nil, all zero, or not),
\* NumPorts and Constraint (nil or not).
FilterTasks ==
    { [resource |-> Res(1, 1, 0, 0), numPorts |-> 0, constraint |-> NIL],
      [resource |-> Res(1, 1, 0, 0), numPorts |-> 1, constraint |-> NIL],
      [resource |-> Res(1, 1, 0, 0), numPorts |-> 0,
       constraint |-> [type |-> 1, requirement |-> 1]],
      [resource |-> Res(1, 1, 0, 0), numPorts |-> 0,
       constraint |-> [type |-> 0, requirement |-> 0]],
      [resource |-> Res(0, 1, 0, 0), numPorts |-> 0, constraint |-> NIL],
      [resource |-> Res(0, 0, 0, 0), numPorts |-> 0, constraint |-> NIL],
      [resource |-> NIL, numPorts |-> 0, constraint |-> NIL] }

\* The lists Filters may be given; an assignment carries its position as
\* its identity.
FilterInputs ==
    UNION {{[i \in 1..n |-> [id |-> i, resource |-> f[i].resource,
                             numPorts |-> f[i].numPorts,
                             constraint |-> f[i].constraint]] :
            f \in [1..n -> FilterTasks]} : n \in 0..MaxAssignments}

\* batch.getHostFilter: a new HostFilter for the assignment. The pointer is
\* named after the assignment it was made for.
getHostFilter(a) ==
    [ptr |-> a.id,
     minimum |-> a.resource,
     numPorts |-> a.numPorts,
     schedulingConstraint |-> a.constraint]

\* One piece of the text of a message: a field name and a scalar, or the
\* opening and closing of a nested message.
Tok(f, v) == [field |-> f, value |-> v]

\* A scalar field in the text of a proto3 message: left out when zero.
Scalar(f, v) == IF v = 0 THEN <<>> ELSE <<Tok(f, v)>>

\* A message field in the text: left out when nil, written (even when
\* empty) otherwise.
Message(f, m, body) ==
    IF m = NIL THEN <<>> ELSE <<Tok(f, "<")>> \o body \o <<Tok(f, ">")>>

\* String() with the num_ports field left out.
StringWithoutPorts(filter) ==
    Message("resource_constraint", filter,
        Message("minimum", filter.minimum,
            IF filter.minimum = NIL THEN <<>>
            ELSE Scalar("cpuLimit", filter.minimum.cpu)
                 \o Scalar("memLimitMb", filter.minimum.mem)
                 \o Scalar("diskLimitMb", filter.minimum.disk)
                 \o Scalar("gpuLimit", filter.minimum.gpu)))
    \o Message("scheduling_constraint", filter.schedulingConstraint,
        IF filter.schedulingConstraint = NIL THEN <<>>
        ELSE Scalar("type", filter.schedulingConstraint.type)
             \o Scalar("requirement", filter.schedulingConstraint.requirement))

\* filter.String(): the text of the HostFilter message. The host limit is
\* not set yet, so it is zero and left out.
String(filter) ==
    Message("resource_constraint", filter,
        Message("minimum", filter.minimum,
            IF filter.minimum = NIL THEN <<>>
            ELSE Scalar("cpuLimit", filter.minimum.cpu)
                 \o Scalar("memLimitMb", filter.minimum.mem)
                 \o Scalar("diskLimitMb", filter.minimum.disk)
                 \o Scalar("gpuLimit", filter.minimum.gpu))
        \o Scalar("num_ports", filter.numPorts))
    \o Message("scheduling_constraint", filter.schedulingConstraint,
        IF filter.schedulingConstraint = NIL THEN <<>>
        ELSE Scalar("type", filter.schedulingConstraint.type)
             \o Scalar("requirement", filter.schedulingConstraint.requirement))

\* Filters is called with a list of assignments.
FiltersInit ==
    /\ filterInput \in FilterInputs
    /\ fIdx = 1
    /\ groups = <<>>
    /\ filters = <<>>
    /\ fpc = "Filters"

\* One pass of "for _, assignment := range assignments".
FiltersStep ==
    /\ fpc = "Filters"
    /\ fIdx <= Len(filterInput)
    /\ LET assignment == filterInput[fIdx]
           filter == getHostFilter(assignment)
           s == String(filter)
           groups1 == IF s \in DOMAIN groups THEN groups ELSE groups @@ (s :> filter)
           key == groups1[s].ptr
           batch == IF key \in DOMAIN filters THEN filters[key] ELSE <<>>
       IN /\ groups' = groups1
          /\ filters' = (key :> Append(batch, assignment.id)) @@ filters
    /\ fIdx' = fIdx + 1
    /\ UNCHANGED <<filterInput, fpc>>
    /\ UNCHANGED notFilters

\* The range loop is over: Filters returns the filters map.
FiltersReturn ==
    /\ fpc = "Filters"
    /\ fIdx > Len(filterInput)
    /\ fpc' = "done"
    /\ UNCHANGED <<filterInput, fIdx, groups, filters>>
    /\ UNCHANGED notFilters

InitFilters == TrackedIdle /\ SchedulerIdle /\ BatchIdle /\ FiltersInit /\ PoolIdle /\ RecoveryIdle /\ UpdateIdle /\ StartIdle /\ ServerIdle /\ TranslateIdle /\ ParseIdle /\ PrunerIdle /\ RespoolIdle /\ ListIdle

NextFilters ==
    \/ FiltersStep
    \/ FiltersReturn

SpecFilters == InitFilters /\ [][NextFilters]_vars

\* The group (the key of the filters map) assignment i is in.
GroupsOf(i) ==
    {k \in DOMAIN filters : \E n \in 1..Len(filters[k]) : filters[k][n] = i}

\* What a host filter is made from: resource minimum, number of ports and
\* scheduling constraint.
FilterOf(a) == <<a.resource, a.numPorts, a.constraint>>

\* C11: Filters partitions the assignments by host filter: every
\* assignment is in exactly one group (once), two assignments share a group
\* exactly when their resource minimum, number of ports and scheduling
\* constraint are identical, and each group is in input order.
C11_FiltersPartition ==
    fpc = "done" =>
        /\ \A i \in 1..Len(filterInput) :
               /\ Cardinality(GroupsOf(i)) = 1
               /\ \A k \in GroupsOf(i) :
                      Cardinality({n \in 1..Len(filters[k]) : filters[k][n] = i}) = 1
        /\ \A k \in DOMAIN filters :
               /\ filters[k] # <<>>
               /\ \A n \in 1..Len(filters[k]) : filters[k][n] \in 1..Len(filterInput)
               /\ \A n, m \in 1..Len(filters[k]) : n < m => filters[k][n] < filters[k][m]
        /\ \A i, j \in 1..Len(filterInput) :
               (GroupsOf(i) = GroupsOf(j))
                   <=> (FilterOf(filterInput[i]) = FilterOf(filterInput[j]))

\* Filters has returned two groups or more, one of them holding two
\* assignments that were not next to each other in the input.
C11_Witness ==
    /\ fpc = "done"
    /\ Cardinality(DOMAIN filters) >= 2
    /\ \E k \in DOMAIN filters :
           \E n \in 1..(Len(filters[k]) - 1) : filters[k][n + 1] > filters[k][n] + 1

(***************************************************************************)
(* The offer pool: RemoveExpiredOffers, as TestRemoveExpiredOffers         *)
(* (src/jobmgr/tracked/task.go, lines 381-433) and the offer pruner        *)
(* (src/unnamed/part_002, lines 281-288) call it.                          *)
(***************************************************************************)

\* Bound of the pool model: how far the clock runs, in minutes.
MaxPoolTime == 3

\* The offers of the test.
OfferIds == {"offer1", "offer2", "offer3"}

\* The hold times of the test (1 and 5 minutes), and one between.
OfferHoldTimes == {1, 2, 5}

\* RemoveExpiredOffers removing the offers whose age has reached the hold
\* time, not only those whose age exceeds it.
RemoveExpiredOffersAtHoldTime(pool, holdTime, t, force) ==
    LET expired == {id \in DOMAIN pool : force \/ t - pool[id] >= holdTime}
    IN [result |-> expired,
        offers |-> [id \in (DOMAIN pool) \ expired |-> pool[id]]]

\* pool.RemoveExpiredOffers(force): the ids of the offers whose age exceeds
\* the hold time (of all offers, when forced), and the pool without them.
RemoveExpiredOffers(pool, holdTime, t, force) ==
    LET expired == {id \in DOMAIN pool : force \/ t - pool[id] > holdTime}
    IN [result |-> expired,
        offers |-> [id \in (DOMAIN pool) \ expired |-> pool[id]]]

\* A pool as the test builds it: empty, with a hold time.
PoolInit ==
    /\ poolOffers = <<>>
    /\ offerHoldTime \in OfferHoldTimes
    /\ poolNow = 0
    /\ lastRemove = [op |-> "none"]

\* An offer enters the pool: &Offer{Timestamp: time.Now()}.
AddOffer(id) ==
    /\ id \notin DOMAIN poolOffers
    /\ poolOffers' = (id :> poolNow) @@ poolOffers
    /\ UNCHANGED <<offerHoldTime, poolNow, lastRemove>>
    /\ UNCHANGED notPool

\* A minute passes.
PoolTick ==
    /\ poolNow < MaxPoolTime
    /\ poolNow' = poolNow + 1
    /\ UNCHANGED <<poolOffers, offerHoldTime, lastRemove>>
    /\ UNCHANGED notPool

\* result = pool.RemoveExpiredOffers(force), as the test calls it.
RemoveExpiredOffersCall(force) ==
    /\ LET r == RemoveExpiredOffers(poolOffers, offerHoldTime, poolNow, force)
       IN /\ poolOffers' = r.offers
          /\ lastRemove' = [op |-> "RemoveExpiredOffers", caller |-> "test",
                            force |-> force, before |-> poolOffers, at |-> poolNow,
                            result |-> r.result, after |-> r.offers,
                            declined |-> {}]
    /\ UNCHANGED <<offerHoldTime, poolNow>>
    /\ UNCHANGED notPool

\* The pruner's timer fires: it removes the expired offers and declines
\* them, when there are any.
PrunerTimerFired ==
    /\ LET r == RemoveExpiredOffers(poolOffers, offerHoldTime, poolNow, FALSE)
       IN /\ poolOffers' = r.offers
          /\ lastRemove' = [op |-> "RemoveExpiredOffers", caller |-> "pruner",
                            force |-> FALSE, before |-> poolOffers, at |-> poolNow,
                            result |-> r.result, after |-> r.offers,
                            declined |-> r.result]
    /\ UNCHANGED <<offerHoldTime, poolNow>>
    /\ UNCHANGED notPool

InitPool == TrackedIdle /\ SchedulerIdle /\ BatchIdle /\ FiltersIdle /\ PoolInit /\ RecoveryIdle /\ UpdateIdle /\ StartIdle /\ ServerIdle /\ TranslateIdle /\ ParseIdle /\ PrunerIdle /\ RespoolIdle /\ ListIdle

NextPool ==
    \/ \E id \in OfferIds : AddOffer(id)
    \/ PoolTick
    \/ \E force \in BOOLEAN : RemoveExpiredOffersCall(force)
    \/ PrunerTimerFired

SpecPool == InitPool /\ [][NextPool]_vars

\* The offers of a pool whose age at time t exceeds the hold time.
Expired(pool, t) == {id \in DOMAIN pool : t - pool[id] > offerHoldTime}

\* C12: RemoveExpiredOffers(false) returns and removes exactly the offers
\* whose age exceeds the hold time and leaves the others in the pool, with
\* their timestamps (nothing is returned for an empty pool or a pool of
\* fresh offers); RemoveExpiredOffers(true) returns and removes every offer.
C12_RemoveExpiredOffers ==
    lastRemove.op = "RemoveExpiredOffers" =>
        LET before == lastRemove.before
            gone == IF lastRemove.force THEN DOMAIN before
                    ELSE Expired(before, lastRemove.at)
        IN /\ lastRemove.result = gone
           /\ DOMAIN lastRemove.after = (DOMAIN before) \ gone
           /\ \A id \in DOMAIN lastRemove.after : lastRemove.after[id] = before[id]
           /\ (~lastRemove.force /\ \A id \in DOMAIN before : before[id] = lastRemove.at)
                  => lastRemove.result = {}
           /\ lastRemove.force => lastRemove.after = <<>>

\* RemoveExpiredOffers(false) returned an offer and left two: a fresh one
\* and one whose age is exactly the hold time.
C12_Witness ==
    /\ lastRemove.op = "RemoveExpiredOffers"
    /\ ~lastRemove.force
    /\ lastRemove.result # {}
    /\ \E a, b \in DOMAIN lastRemove.after :
           /\ lastRemove.after[a] = lastRemove.at
           /\ lastRemove.at - lastRemove.after[b] = offerHoldTime

(***************************************************************************)
(* Job recovery (src/jobmgr/job/recovery.go)                               *)
(***************************************************************************)

\* Bounds of the recovery model: the instances of the job and how far the
\* clock runs.
MaxInstances == 2
MaxRecTime == 3

\* recoveryInterval (15 minutes), in units of 7.5 minutes, and batchRows
\* (1000), scaled down to 2 so that a job has more than one batch.
recoveryInterval == 2
batchRows == 2

\* The layout of time.Time.String().
timeLayout == "2006-01-02 15:04:05.999999999 -0700 MST"

\* The zero time.Time of a new Recovery: long ago.
ZeroTime == 0 - 2 * recoveryInterval

JobTypes == {"BATCH", "SERVICE"}

\* jobmgr/task.GetDefaultTaskGoalState.
GetDefaultTaskGoalState(jobType) ==
    IF jobType = "SERVICE" THEN "RUNNING" ELSE "SUCCEEDED"

\* The creation times the store may hold: a time written in timeLayout, at
\* the start of the clock or a recovery interval before, or one written in
\* another layout.
CreationTimes ==
    { [layout |-> timeLayout, t |-> 0 - recoveryInterval],
      [layout |-> timeLayout, t |-> 0],
      [layout |-> "RFC3339", t |-> 0] }

\* time.Parse(timeLayout, value).
Parse(layout, value) ==
    IF value.layout = layout THEN [err |-> FALSE, t |-> value.t]
    ELSE [err |-> TRUE, t |-> 0]

\* A row of the task store as the job's creator wrote it.
CreatorRow(i, state, jobType) ==
    [instance |-> i, state |-> state,
     goalState |-> GetDefaultTaskGoalState(jobType),
     createdBy |-> "creator", run |-> 0]

\* What the creator left of the tasks of a job: per instance nothing, a
\* task still INITIALIZED or a task past it.
StoredStates == {"missing", "INITIALIZED", "RUNNING"}

\* A job in state INITIALIZED in the store, its tasks created in part.
RecoveryInit ==
    /\ recNow = 0
    /\ lastRecoveryTime = ZeroTime
    /\ leader = FALSE
    /\ \E n \in 0..MaxInstances, ty \in JobTypes, ct \in CreationTimes :
           /\ jobConfig = [instanceCount |-> n, type |-> ty]
           /\ jobRuntime = [state |-> "INITIALIZED", creationTime |-> ct]
           /\ \E f \in [0..(n - 1) -> StoredStates] :
                  taskStore = {CreatorRow(i, f[i], ty) :
                                   i \in {k \in 0..(n - 1) : f[k] # "missing"}}
    /\ resmgrQueue = {}
    /\ rpc = "idle"
    /\ recBatch = 0
    /\ recIdx = 0
    /\ tasksToRequeue = <<>>
    /\ rec = [op |-> "none"]
    /\ lastCall = [op |-> "none"]

\* Time passes between two calls.
RecTick ==
    /\ rpc = "idle"
    /\ recNow < MaxRecTime
    /\ recNow' = recNow + 1
    /\ UNCHANGED <<lastRecoveryTime, leader, jobConfig, jobRuntime, taskStore,
                   resmgrQueue, rpc, recBatch, recIdx, tasksToRequeue, rec, lastCall>>
    /\ UNCHANGED notRecovery

\* The guard of recoverJobs: the last recovery was less than
\* recoveryInterval ago.
RecoveredRecently(since) == since < recoveryInterval

\* Leadership is gained and recoverJobs is called: nothing when the last
\* recovery was too recent; else the INITIALIZED jobs are read from the
\* store (getErr: GetJobsByState fails) and recovered one by one.
GainLeadership(getErr) ==
    /\ ~leader
    /\ rpc = "idle"
    /\ leader' = TRUE
    /\ IF RecoveredRecently(recNow - lastRecoveryTime)
       THEN /\ lastCall' = [op |-> "recoverJobs", enumerated |-> FALSE]
            /\ UNCHANGED <<lastRecoveryTime, rpc>>
       ELSE /\ lastRecoveryTime' = recNow
            /\ lastCall' = [op |-> "recoverJobs", enumerated |-> TRUE]
            /\ rpc' = IF ~getErr /\ jobRuntime.state = "INITIALIZED"
                      THEN "recoverJob" ELSE "idle"
    /\ UNCHANGED <<recNow, jobConfig, jobRuntime, taskStore, resmgrQueue,
                   recBatch, recIdx, tasksToRequeue, rec>>
    /\ UNCHANGED notRecovery

\* Leadership is lost.
LoseLeadership ==
    /\ leader
    /\ rpc = "idle"
    /\ leader' = FALSE
    /\ UNCHANGED <<recNow, lastRecoveryTime, jobConfig, jobRuntime, taskStore,
                   resmgrQueue, rpc, recBatch, recIdx, tasksToRequeue, rec, lastCall>>
    /\ UNCHANGED notRecovery

\* The record of a recoverJob call that starts now.
NewRec ==
    [op |-> "recoverJob",
     run |-> IF rec.op = "none" THEN 1 ELSE rec.run + 1,
     storeBefore |-> taskStore,
     jobStateBefore |-> jobRuntime.state,
     parsed |-> FALSE, age |-> 0,
     walked |-> FALSE,
     created |-> {}, enqueued |-> {},
     failure |-> "none", result |-> "running"]

\* recoverJob returns (its variables are gone): recoverJobs has no other
\* job to go to.
RecReturn(r) ==
    /\ rec' = r
    /\ rpc' = "idle"
    /\ recBatch' = 0
    /\ recIdx' = 0
    /\ tasksToRequeue' = <<>>

\* The guard of recoverJob with "age < recoveryInterval" left out.
CreatedRecentlyNever(age) == FALSE

\* The guard of recoverJob: the job was created less than recoveryInterval
\* ago.
CreatedRecently(age) == age < recoveryInterval

\* The start of recoverJob, up to the loop over the batches: the job config
\* and runtime are read (readErr: one of the reads fails), the creation
\* time is parsed, a job created recently is skipped.
RecoverJobBegin(readErr) ==
    /\ rpc = "recoverJob"
    /\ LET createTime == Parse(timeLayout, jobRuntime.creationTime)
           age == recNow - createTime.t
       IN IF readErr
          THEN RecReturn([NewRec EXCEPT !.failure = "GetJob", !.result = "err"])
          ELSE IF createTime.err
          THEN RecReturn([NewRec EXCEPT !.failure = "Parse", !.result = "err"])
          ELSE IF CreatedRecently(age)
          THEN RecReturn([NewRec EXCEPT !.parsed = TRUE, !.age = age, !.result = "nil"])
          ELSE /\ rec' = [NewRec EXCEPT !.parsed = TRUE, !.age = age, !.walked = TRUE]
               /\ rpc' = "batch"
               /\ recBatch' = 0
               /\ UNCHANGED <<recIdx, tasksToRequeue>>
    /\ UNCHANGED <<recNow, lastRecoveryTime, leader, jobConfig, jobRuntime, taskStore,
                   resmgrQueue, lastCall>>
    /\ UNCHANGED notRecovery

\* util.Min.
Min(a, b) == IF a < b THEN a ELSE b

\* The head of "for batch := 0; batch < InstanceCount/batchRows+1; batch++".
BatchBegin ==
    /\ rpc = "batch"
    /\ IF recBatch < (jobConfig.instanceCount \div batchRows) + 1
       THEN /\ tasksToRequeue' = <<>>
            /\ recIdx' = recBatch * batchRows
            /\ rpc' = "instances"
       ELSE /\ rpc' = "update"
            /\ UNCHANGED <<tasksToRequeue, recIdx>>
    /\ UNCHANGED <<recNow, lastRecoveryTime, leader, jobConfig, jobRuntime, taskStore,
                   resmgrQueue, recBatch, rec, lastCall>>
    /\ UNCHANGED notRecovery

\* taskStore.GetTaskForJob(jobID, i): the rows of instance i.
GetTaskForJob(i) == {row \in taskStore : row.instance = i}

\* What recoverJob does with an error of GetTaskForJob, creating the task
\* on any error.
OnGetTaskForJobAnyError(lookup) ==
    IF lookup = "ok" THEN "requeue" ELSE "create"

\* What recoverJob does with the result of GetTaskForJob: an error other
\* than TaskNotFoundError is logged and the instance passed over, a missing
\* task is created, the INITIALIZED tasks found are requeued.
OnGetTaskForJob(lookup) ==
    IF lookup = "error" THEN "continue"
    ELSE IF lookup = "notFound" THEN "create"
    ELSE "requeue"

\* createTaskForJob: the task written to the store for instance i.
createTaskForJob(i, run) ==
    [instance |-> i, state |-> "INITIALIZED", goalState |-> "SUCCEEDED",
     createdBy |-> "recovery", run |-> run]

\* What recoverJob does after createTaskForJob, going on after an error.
AfterCreateTaskGoesOn(err) == "append"

\* What recoverJob does after createTaskForJob: it returns the error, or
\* appends the task to tasksToRequeue.
AfterCreateTask(err) == IF err THEN "return" ELSE "append"

\* One pass of "for i := start; i < end; i++".
VisitInstance(lookup, createErr) ==
    /\ rpc = "instances"
    /\ recIdx < Min((recBatch + 1) * batchRows, jobConfig.instanceCount)
    /\ lookup = "ok" => GetTaskForJob(recIdx) # {}
    /\ lookup = "notFound" => GetTaskForJob(recIdx) = {}
    /\ LET todo == OnGetTaskForJob(lookup) IN
       IF todo = "continue"
       THEN /\ recIdx' = recIdx + 1
            /\ UNCHANGED <<taskStore, tasksToRequeue, rec, rpc, recBatch>>
       ELSE IF todo = "create"
       THEN IF AfterCreateTask(createErr) = "return"
            THEN /\ RecReturn([rec EXCEPT !.failure = "CreateTask", !.result = "err"])
                 /\ UNCHANGED taskStore
            ELSE /\ taskStore' = IF createErr THEN taskStore
                                 ELSE taskStore \cup {createTaskForJob(recIdx, rec.run)}
                 /\ rec' = IF createErr THEN [rec EXCEPT !.failure = "CreateTask"]
                           ELSE [rec EXCEPT !.created = @ \cup {recIdx}]
                 /\ tasksToRequeue' = IF createErr THEN tasksToRequeue
                                      ELSE Append(tasksToRequeue, recIdx)
                 /\ recIdx' = recIdx + 1
                 /\ UNCHANGED <<rpc, recBatch>>
       ELSE /\ tasksToRequeue' =
                   IF \E row \in GetTaskForJob(recIdx) : row.state = "INITIALIZED"
                   THEN Append(tasksToRequeue, recIdx) ELSE tasksToRequeue
            /\ recIdx' = recIdx + 1
            /\ UNCHANGED <<taskStore, rec, rpc, recBatch>>
    /\ UNCHANGED <<recNow, lastRecoveryTime, leader, jobConfig, jobRuntime,
                   resmgrQueue, lastCall>>
    /\ UNCHANGED notRecovery

\* The elements of a list.
Range(list) == {list[k] : k \in 1..Len(list)}

\* The end of a batch: the tasks gathered, if any, are enqueued to the
\* resource manager (enqueueErr: EnqueueTasks fails).
EnqueueBatch(enqueueErr) ==
    /\ rpc = "instances"
    /\ recIdx >= Min((recBatch + 1) * batchRows, jobConfig.instanceCount)
    /\ IF Len(tasksToRequeue) > 0
       THEN IF enqueueErr
            THEN /\ RecReturn([rec EXCEPT !.failure = "EnqueueTasks", !.result = "err"])
                 /\ UNCHANGED resmgrQueue
            ELSE /\ resmgrQueue' = resmgrQueue \cup Range(tasksToRequeue)
                 /\ rec' = [rec EXCEPT !.enqueued = @ \cup Range(tasksToRequeue)]
                 /\ recBatch' = recBatch + 1
                 /\ rpc' = "batch"
                 /\ UNCHANGED <<recIdx, tasksToRequeue>>
       ELSE /\ ~enqueueErr
            /\ recBatch' = recBatch + 1
            /\ rpc' = "batch"
            /\ UNCHANGED <<resmgrQueue, rec, recIdx, tasksToRequeue>>
    /\ UNCHANGED <<recNow, lastRecoveryTime, leader, jobConfig, jobRuntime, taskStore,
                   lastCall>>
    /\ UNCHANGED notRecovery

\* After the batches: the job is written to the store as PENDING
\* (updateErr: UpdateJobRuntime fails).
UpdateJobRuntime(updateErr) ==
    /\ rpc = "update"
    /\ IF updateErr
       THEN /\ RecReturn([rec EXCEPT !.failure = "UpdateJobRuntime", !.result = "err"])
            /\ UNCHANGED jobRuntime
       ELSE /\ jobRuntime' = [jobRuntime EXCEPT !.state = "PENDING"]
            /\ RecReturn([rec EXCEPT !.result = "nil"])
    /\ UNCHANGED <<recNow, lastRecoveryTime, leader, jobConfig, taskStore,
                   resmgrQueue, lastCall>>
    /\ UNCHANGED notRecovery

InitRecovery == TrackedIdle /\ SchedulerIdle /\ BatchIdle /\ FiltersIdle /\ PoolIdle /\ RecoveryInit /\ UpdateIdle /\ StartIdle /\ ServerIdle /\ TranslateIdle /\ ParseIdle /\ PrunerIdle /\ RespoolIdle /\ ListIdle

NextRecovery ==
    \/ RecTick
    \/ \E getErr \in BOOLEAN : GainLeadership(getErr)
    \/ LoseLeadership
    \/ \E readErr \in BOOLEAN : RecoverJobBegin(readErr)
    \/ BatchBegin
    \/ \E lookup \in {"ok", "notFound", "error"}, createErr \in BOOLEAN :
           VisitInstance(lookup, createErr)
    \/ \E enqueueErr \in BOOLEAN : EnqueueBatch(enqueueErr)
    \/ \E updateErr \in BOOLEAN : UpdateJobRuntime(updateErr)

SpecRecovery == InitRecovery /\ [][NextRecovery]_vars

\* The rows of instance i in the store as recoverJob found it.
Before(i) == {row \in rec.storeBefore : row.instance = i}

\* The last recoverJob call went through all batches and returned nil.
Recovered ==
    /\ rec.op = "recoverJob"
    /\ rec.walked
    /\ rec.result = "nil"

\* C13: when recoverJob has recovered an INITIALIZED job older than the
\* recovery interval, then for every instance id below InstanceCount: a task
\* that was missing is stored INITIALIZED and was enqueued, a stored
\* INITIALIZED task was enqueued, and a stored task in another state is
\* unchanged and was not enqueued.
C13_RecoverInitializedJob ==
    Recovered =>
        \A i \in 0..(jobConfig.instanceCount - 1) :
            /\ Before(i) = {} =>
                   /\ \E row \in GetTaskForJob(i) :
                          row.state = "INITIALIZED" /\ row.createdBy = "recovery"
                   /\ i \in rec.enqueued
            /\ (\E row \in Before(i) : row.state = "INITIALIZED") =>
                   /\ GetTaskForJob(i) = Before(i)
                   /\ i \in rec.enqueued
            /\ (Before(i) # {} /\ \A row \in Before(i) : row.state # "INITIALIZED") =>
                   /\ GetTaskForJob(i) = Before(i)
                   /\ i \notin rec.enqueued

\* C14: recovery run again adds no second task for an instance and changes
\* no stored task: the store holds one task per instance id at most, a run
\* only adds tasks for instances that had none, a job that was recovered is
\* not recovered again and its tasks stay as that run left them; also when
\* an earlier run failed part-way.
C14_RecoveryIdempotent ==
    /\ \A r1, r2 \in taskStore : r1.instance = r2.instance => r1 = r2
    /\ \A row \in taskStore : row.instance \in 0..(jobConfig.instanceCount - 1)
    /\ rec.op = "recoverJob" =>
           /\ rec.jobStateBefore = "INITIALIZED"
           /\ rec.storeBefore \subseteq taskStore
           /\ {row.instance : row \in taskStore \ rec.storeBefore} = rec.created
           /\ \A i \in rec.created : Before(i) = {}
    /\ jobRuntime.state = "PENDING" => /\ rpc = "idle"
                                       /\ Recovered

\* A second recoverJob call recovered the job, creating a task, after an
\* earlier call had created a task and failed.
C14_Witness ==
    /\ Recovered
    /\ rec.run >= 2
    /\ rec.created # {}
    /\ \E row \in rec.storeBefore : row.createdBy = "recovery"

\* C15: when creating a missing task or enqueueing the gathered tasks
\* fails, recoverJob returns the error and the job stays INITIALIZED in the
\* store; the job is PENDING only after a recoverJob call without failure.
C15_PendingOnlyOnSuccess ==
    /\ (rec.op = "recoverJob" /\ rec.failure \in {"CreateTask", "EnqueueTasks"}) =>
           /\ rec.result = "err"
           /\ jobRuntime.state = "INITIALIZED"
    /\ jobRuntime.state = "PENDING" =>
           /\ rec.op = "recoverJob"
           /\ rec.result = "nil"
           /\ rec.failure = "none"

\* recoverJob created a task and then failed to enqueue.
C15_Witness ==
    /\ rec.op = "recoverJob"
    /\ rec.failure = "EnqueueTasks"
    /\ rec.created # {}

\* C16: for a job created less than the recovery interval ago recoverJob
\* creates no task, enqueues nothing and leaves the job INITIALIZED.
C16_RecentJobSkipped ==
    (rec.op = "recoverJob" /\ rec.parsed /\ rec.age < recoveryInterval) =>
        /\ rec.result = "nil"
        /\ ~rec.walked
        /\ rec.created = {}
        /\ rec.enqueued = {}
        /\ taskStore = rec.storeBefore
        /\ jobRuntime.state = "INITIALIZED"

\* recoverJob was called on a job created less than the recovery interval
\* ago, with a task missing and a task INITIALIZED in the store.
C16_Witness ==
    /\ rec.op = "recoverJob"
    /\ rec.parsed
    /\ rec.age < recoveryInterval
    /\ \E i \in 0..(jobConfig.instanceCount - 1) : Before(i) = {}
    /\ \E row \in rec.storeBefore : row.state = "INITIALIZED"

\* C35: when recoverJob has returned nil for a job older than the recovery
\* interval and set it PENDING, every instance id below InstanceCount has a
\* task in the store, also when GetTaskForJob failed for an instance with
\* an error other than TaskNotFoundError.
C35_PendingJobHasAllTasks ==
    (Recovered /\ jobRuntime.state = "PENDING") =>
        \A i \in 0..(jobConfig.instanceCount - 1) : GetTaskForJob(i) # {}

\* C17: every time leadership is gained, recoverJobs goes on to enumerate
\* the INITIALIZED jobs, however recent the last recovery.
C17_RecoveryOnEveryGain ==
    lastCall.op = "recoverJobs" => lastCall.enumerated

\* C18: a task created by recovery has the default goal state of its job
\* type: RUNNING for a SERVICE job, SUCCEEDED for a BATCH job.
C18_RecoveredGoalState ==
    \A row \in taskStore :
        row.createdBy = "recovery" =>
            row.goalState = GetDefaultTaskGoalState(jobConfig.type)

(***************************************************************************)
(* UpdateEngine: UpdateRun(update_id), the single action of a rolling      *)
(* update.  One run loads the update and the job, classifies the instances *)
(* in flight, admits pending instances up to the batch capacity, writes    *)
(* the progress and re-enqueues the update.                                *)
(***************************************************************************)

\* Instance numbers of a job run from 0 to MaxUpdInstances.
MaxUpdInstances == 3

InstanceNumbers == 0..MaxUpdInstances

\* The batch sizes of an update config: 0 is no bound.
BatchSizes == {0, 1, 2}

\* newSlice(start, end): start, start+1, .., end-1.
newSlice(start, end) ==
    [k \in 1..(IF end > start THEN end - start ELSE 0) |-> start + k - 1]

\* What Cancel returns.
CancelErrors == {"nil", "fake db error"}

\* How one instance in flight is found: IsInstanceComplete, IsInstanceFailed,
\* IsInstanceInProgress, or none of the three.
Outcomes == {"done", "failed", "inProgress", "none"}

\* The call of a run that fails: none, AddTask/GetRunTime while classifying,
\* Rollback, PatchTasks while processing, WriteProgress.
Faults == {"none", "AddTask", "Rollback", "PatchTasks", "WriteProgress"}

\* The values of max_failure_instances: 0 is no limit.
FailureLimits == {0, 1, 2}

\* The instance ids of the tasks of the job.
TaskIds == 0..(MaxUpdInstances - 1)

\* CreateInitializingTask(jobID, instanceID, jobConfig) of a service job:
\* the runtime of a new task, both of its config versions the version of
\* the job config.
CreateInitializingTask(version) ==
    [state |-> "INITIALIZED",
     configVersion |-> version,
     desiredConfigVersion |-> version,
     goalState |-> "RUNNING"]

\* An update of a job that goes from oldInstanceNumber to newInstanceNumber
\* instances: added are the instances below the new and not below the old
\* count, updated the ones within both counts when the config changes,
\* removed the ones below the old and not below the new count.  Nothing is
\* in flight, done or failed yet.
UpdateInit ==
    /\ updTracked \in BOOLEAN
    /\ jobTracked \in BOOLEAN
    /\ \E oldInstanceNumber \in InstanceNumbers, newInstanceNumber \in InstanceNumbers,
          changed \in BOOLEAN :
         /\ prevInstanceCount = oldInstanceNumber
         /\ instanceCount = newInstanceNumber
         /\ instancesAdded = newSlice(oldInstanceNumber, newInstanceNumber)
         /\ instancesUpdated =
                IF changed THEN newSlice(0, Min(oldInstanceNumber, newInstanceNumber))
                ELSE <<>>
         /\ instancesRemoved = newSlice(newInstanceNumber, oldInstanceNumber)
    /\ instancesCurrent = {}
    /\ instancesDone = {}
    /\ instancesFailed = {}
    /\ batchSize \in BatchSizes
    /\ maxFailureInstances \in FailureLimits
    /\ rollbackOnFailure \in BOOLEAN
    /\ prevVersion = 3
    /\ jobVersion = 4
    /\ taskRuntimes = [x \in TaskIds |->
                          IF x < prevInstanceCount
                          THEN [CreateInitializingTask(3) EXCEPT !.state = "RUNNING"]
                          ELSE NIL]
    /\ versionSwaps = 0
    /\ updState = "ROLLING_FORWARD"
    /\ updRun = [op |-> "none"]

\* The instances of list that are in S, in the order of list.
Only(list, S) == SelectSeq(list, LAMBDA x : x \in S)

\* The instances of S, lowest instance id first.
RECURSIVE Ascending(_)
Ascending(S) ==
    IF S = {} THEN <<>>
    ELSE LET m == CHOOSE x \in S : \A y \in S : x <= y
         IN <<m>> \o Ascending(S \ {m})

\* The record of an UpdateRun that starts now and has done nothing yet.
NewRun(fault, cancelErr) ==
    [op |-> "UpdateRun",
     updFound |-> updTracked, jobFound |-> jobTracked,
     fault |-> fault, cancelErr |-> cancelErr,
     cancelled |-> FALSE,
     state |-> updState, done |-> {}, failed |-> {},
     inProgress |-> {}, admitted |-> <<>>,
     created |-> <<>>, gangs |-> <<>>, patched |-> <<>>, deleted |-> <<>>,
     taskEnqueued |-> <<>>, runtimeDiffs |-> <<>>,
     policy |-> "none", rollbackCalls |-> 0, patchedOutside |-> {},
     writeProgressCalls |-> 0, writeState |-> "none", wrote |-> FALSE,
     updEnqueued |-> FALSE, enqueuedFor |-> "none",
     result |-> "nil"]

\* Step 1: the update is not in the tracker; the run is a no-op.
RunWithoutUpdate(r) == r

RunWithoutJobErrorDropped(r) ==
    [r EXCEPT !.cancelled = TRUE, !.result = "nil"]

\* Step 2: the job is not in the tracker; the update is cancelled and the
\* run returns what Cancel returns.
RunWithoutJob(r) ==
    [r EXCEPT !.cancelled = TRUE, !.result = r.cancelErr]

\* Step 4: the instances in flight that are found in the given way.
Found(cls, outcome) == {x \in instancesCurrent : cls[x] = outcome}

\* Step 6, the pending set: the instances of the update that are neither
\* in progress nor done nor failed, lowest instance id first.
PendingInstances(inProgress, done, failed) ==
    Ascending((Range(instancesAdded) \cup Range(instancesUpdated)
                 \cup Range(instancesRemoved))
              \ (inProgress \cup done \cup failed))

CapacityIgnoringInProgress(inProgress, pending) ==
    IF batchSize = 0 THEN Len(pending)
    ELSE Min(batchSize, Len(pending))

\* Step 5: remaining capacity = batch_size - in_progress, unbounded when
\* batch_size = 0; no more than what is pending.
Capacity(inProgress, pending) ==
    IF batchSize = 0 THEN Len(pending)
    ELSE IF batchSize <= Cardinality(inProgress) THEN 0
    ELSE Min(batchSize - Cardinality(inProgress), Len(pending))

\* Step 7: what the failure policy asks for once the instances in flight
\* are classified: nothing, a rollback, or the end of the update as FAILED.
\* A failure policy that waits for one failed instance more than the limit.
FailurePolicyAboveLimit(failed) ==
    IF maxFailureInstances = 0 \/ Cardinality(failed) <= maxFailureInstances
    THEN "none"
    ELSE IF rollbackOnFailure /\ updState = "ROLLING_FORWARD" THEN "rollback"
    ELSE "fail"

\* A failure policy that takes max_failure_instances = 0 for a limit of
\* no failed instance.
FailurePolicyZeroIsLimit(failed) ==
    IF Cardinality(failed) < maxFailureInstances
    THEN "none"
    ELSE IF rollbackOnFailure /\ updState = "ROLLING_FORWARD" THEN "rollback"
    ELSE "fail"

\* A failure policy that rolls back whatever the state of the update is.
FailurePolicyRollbackAgain(failed) ==
    IF maxFailureInstances = 0 \/ Cardinality(failed) < maxFailureInstances
    THEN "none"
    ELSE IF rollbackOnFailure THEN "rollback"
    ELSE "fail"

FailurePolicy(failed) ==
    IF maxFailureInstances = 0 \/ Cardinality(failed) < maxFailureInstances
    THEN "none"
    ELSE IF rollbackOnFailure /\ updState = "ROLLING_FORWARD" THEN "rollback"
    ELSE "fail"

\* cachedUpdate.Rollback: the target and the source version change places,
\* and with them the instance counts and the added and removed instances;
\* the update rolls backward and starts over with no instance in flight,
\* done or failed.
Rollback ==
    [jobVersion |-> prevVersion, prevVersion |-> jobVersion,
     instanceCount |-> prevInstanceCount, prevInstanceCount |-> instanceCount,
     added |-> instancesRemoved, removed |-> instancesAdded,
     state |-> "ROLLING_BACKWARD",
     progress |-> [done |-> {}, failed |-> {}, current |-> {}]]

\* An end of a run that takes the update for complete without its removed
\* instances.
EnqueueForgettingRemoved(done, patched, terminated) ==
    IF done = Range(instancesAdded) \cup Range(instancesUpdated)
    THEN "completed"
    ELSE IF terminated /\ patched # <<>> THEN "terminated"
    ELSE "none"

\* Step 8 and the end of a run: the update is enqueued at once when every
\* instance of the update is done, or when a task the run just patched is
\* already terminated and no task event will come for it.
EnqueueFor(done, patched, terminated) ==
    IF done = Range(instancesAdded) \cup Range(instancesUpdated)
                \cup Range(instancesRemoved)
    THEN "completed"
    ELSE IF terminated /\ patched # <<>> THEN "terminated"
    ELSE "none"

\* Step 6, updated: the diff of a task runtime that moves it to the job
\* version of the update.
GetRuntimeDiff(version) ==
    [desiredConfigVersion |-> version]

\* A diff that kills the task of a removed instance and leaves it in the job.
RemoveDiffKills(version) ==
    [goalState |-> "KILLED", desiredConfigVersion |-> version]

\* Step 6, removed: the diff of a task runtime that deletes the task.
RemoveDiff(version) ==
    [goalState |-> "DELETED", desiredConfigVersion |-> version]

\* Steps 4 to 8 of a run that found its update and its job: the progress
\* the run arrives at, what it did to the tasks and what becomes of the
\* update (effect).  ok tells whether fault and terminated make sense for
\* the way the run takes.
RunWithJob(r, cls, terminated) ==
    LET done == instancesDone \cup Found(cls, "done")
        failed == instancesFailed \cup Found(cls, "failed")
        inProgress == Found(cls, "inProgress")
        policy == FailurePolicy(failed)
        pending == PendingInstances(inProgress, done, failed)
        admitted == SubSeq(pending, 1, Capacity(inProgress, pending))
        toAdd == Only(admitted, Range(instancesAdded))
        toUpdate == Only(admitted, Range(instancesUpdated))
        toRemove == Only(admitted, Range(instancesRemoved))
        classified == [r EXCEPT !.inProgress = inProgress,
                                !.done = done, !.failed = failed,
                                !.policy = policy]
        created == [classified EXCEPT !.admitted = admitted,
                                      !.created = toAdd, !.gangs = toAdd]
        processed == [created EXCEPT
                         !.patched = toUpdate, !.deleted = toRemove,
                         !.runtimeDiffs =
                             [x \in Range(toUpdate \o toRemove) |->
                                 IF x \in Range(toRemove)
                                 THEN RemoveDiff(jobVersion)
                                 ELSE GetRuntimeDiff(jobVersion)],
                         !.taskEnqueued = toUpdate \o toRemove]
        progress == [done |-> done, failed |-> failed,
                     current |-> inProgress \cup Range(admitted)]
        stopped == [done |-> done, failed |-> failed, current |-> {}]
        why == EnqueueFor(done, toUpdate \o toRemove, terminated)
    IN CASE r.fault = "AddTask" ->
                [run |-> [r EXCEPT !.result = "AddTask failed"],
                 progress |-> progress, effect |-> "none",
                 ok |-> ~terminated]
         [] policy = "rollback" /\ r.fault = "Rollback" ->
                [run |-> [classified EXCEPT !.rollbackCalls = 1,
                                            !.result = "Rollback failed"],
                 progress |-> stopped, effect |-> "none",
                 ok |-> ~terminated]
         [] policy = "rollback" ->
                [run |-> [classified EXCEPT
                             !.rollbackCalls = 1,
                             !.patchedOutside =
                                 (0..(prevInstanceCount - 1))
                                 \ (Range(instancesAdded) \cup Range(instancesUpdated)
                                      \cup Range(instancesRemoved)),
                             !.updEnqueued = TRUE, !.enqueuedFor = "rollback"],
                 progress |-> stopped, effect |-> "rollback",
                 ok |-> ~terminated /\ r.fault = "none"]
         [] policy = "fail" /\ r.fault = "WriteProgress" ->
                [run |-> [classified EXCEPT !.writeProgressCalls = 1,
                                            !.writeState = "FAILED",
                                            !.result = "WriteProgress failed"],
                 progress |-> stopped, effect |-> "none",
                 ok |-> ~terminated]
         [] policy = "fail" ->
                [run |-> [classified EXCEPT !.writeProgressCalls = 1,
                                            !.writeState = "FAILED",
                                            !.wrote = TRUE,
                                            !.updEnqueued = TRUE,
                                            !.enqueuedFor = "failed"],
                 progress |-> stopped, effect |-> "fail",
                 ok |-> ~terminated /\ r.fault = "none"]
         [] r.fault = "PatchTasks" ->
                [run |-> [created EXCEPT !.result = "PatchTasks failed"],
                 progress |-> progress, effect |-> "none",
                 ok |-> ~terminated /\ admitted # <<>>]
         [] r.fault = "WriteProgress" ->
                [run |-> [processed EXCEPT !.writeProgressCalls = 1,
                                           !.writeState = updState,
                                           !.result = "WriteProgress failed"],
                 progress |-> progress, effect |-> "none",
                 ok |-> ~terminated]
         [] OTHER ->
                [run |-> [processed EXCEPT !.writeProgressCalls = 1,
                                           !.writeState = updState,
                                           !.wrote = TRUE,
                                           !.updEnqueued = (why # "none"),
                                           !.enqueuedFor = why],
                 progress |-> progress, effect |-> "write",
                 ok |-> /\ r.fault = "none"
                        /\ terminated => toUpdate \o toRemove # <<>>]

\* cachedJob.PatchTasks(ctx, runtimeDiffs) on one runtime: the fields of
\* the diff replace the fields of the runtime; a task that does not exist
\* is left alone.
PatchTask(info, diff) ==
    IF info = NIL THEN NIL
    ELSE [f \in DOMAIN info |-> IF f \in DOMAIN diff THEN diff[f] ELSE info[f]]

\* The task runtimes after a run r: the instances it created hold the
\* runtime of CreateInitializingTask at the job version, the instances it
\* patched hold their diff, and the instances outside the update that a
\* rollback patched are at the version the job is rolled back to.
TasksAfter(r) ==
    [x \in TaskIds |->
        IF x \in Range(r.created) THEN CreateInitializingTask(jobVersion)
        ELSE IF x \in DOMAIN r.runtimeDiffs
        THEN PatchTask(taskRuntimes[x], r.runtimeDiffs[x])
        ELSE IF x \in r.patchedOutside
        THEN PatchTask(taskRuntimes[x],
                       [configVersion |-> prevVersion,
                        desiredConfigVersion |-> prevVersion])
        ELSE taskRuntimes[x]]

\* The states in which the update goal-state engine runs UpdateRun.
RollingStates == {"ROLLING_FORWARD", "ROLLING_BACKWARD"}

\* UpdateRun(ctx, entity): one whole run.  cls is how GetRunTime finds each
\* instance in flight, fault the call that fails, cancelErr what Cancel
\* returns, terminated whether a task the run patches is terminated already.
\* WriteProgress(state, done, failed, current), when it succeeds, is what
\* the update holds afterwards.
UpdateRun(cls, fault, cancelErr, terminated) ==
    /\ updRun.op = "none"
    /\ updState \in RollingStates
    /\ (updTracked /\ ~jobTracked) \/ cancelErr = "nil"
    /\ (updTracked /\ jobTracked) \/ (fault = "none" /\ ~terminated)
    /\ fault = "AddTask" =>
           /\ instancesCurrent # {}
           /\ cls = [x \in instancesCurrent |-> "none"]
    /\ IF ~updTracked
       THEN /\ updRun' = RunWithoutUpdate(NewRun(fault, cancelErr))
            /\ UNCHANGED <<instancesCurrent, instancesDone, instancesFailed,
                           instancesAdded, instancesRemoved, updState, jobVersion,
                           prevVersion, instanceCount, prevInstanceCount,
                           taskRuntimes, versionSwaps>>
       ELSE IF ~jobTracked
       THEN /\ updRun' = RunWithoutJob(NewRun(fault, cancelErr))
            /\ UNCHANGED <<instancesCurrent, instancesDone, instancesFailed,
                           instancesAdded, instancesRemoved, updState, jobVersion,
                           prevVersion, instanceCount, prevInstanceCount,
                           taskRuntimes, versionSwaps>>
       ELSE \E out \in {RunWithJob(NewRun(fault, cancelErr), cls, terminated)} :
               /\ out.ok
               /\ updRun' = out.run
               /\ taskRuntimes' = TasksAfter(out.run)
               /\ \E after \in {IF out.effect = "rollback" THEN Rollback.progress
                                ELSE IF out.effect = "none"
                                THEN [done |-> instancesDone,
                                      failed |-> instancesFailed,
                                      current |-> instancesCurrent]
                                ELSE out.progress} :
                      /\ instancesCurrent' = after.current
                      /\ instancesDone' = after.done
                      /\ instancesFailed' = after.failed
               /\ updState' = CASE out.effect = "rollback" -> Rollback.state
                                [] out.effect = "fail" -> "FAILED"
                                [] OTHER -> updState
               /\ IF out.effect = "rollback"
                  THEN /\ jobVersion' = Rollback.jobVersion
                       /\ prevVersion' = Rollback.prevVersion
                       /\ instanceCount' = Rollback.instanceCount
                       /\ prevInstanceCount' = Rollback.prevInstanceCount
                       /\ instancesAdded' = Rollback.added
                       /\ instancesRemoved' = Rollback.removed
                       /\ versionSwaps' = versionSwaps + 1
                  ELSE UNCHANGED <<jobVersion, prevVersion, instanceCount,
                                   prevInstanceCount, instancesAdded,
                                   instancesRemoved, versionSwaps>>
    /\ UNCHANGED <<updTracked, jobTracked, instancesUpdated, batchSize,
                   maxFailureInstances, rollbackOnFailure>>
    /\ UNCHANGED notUpdate

\* The run is over and its record dropped: the update waits in the queue of
\* the update goal-state engine for its next run.
UpdateRunOver ==
    /\ updRun.op = "UpdateRun"
    /\ updRun' = [op |-> "none"]
    /\ UNCHANGED <<updTracked, jobTracked, instancesAdded, instancesUpdated,
                   instancesRemoved, instancesCurrent, instancesDone,
                   instancesFailed, batchSize, updState, maxFailureInstances,
                   rollbackOnFailure, jobVersion, prevVersion, instanceCount,
                   prevInstanceCount, taskRuntimes, versionSwaps>>
    /\ UNCHANGED notUpdate

\* How the instances in flight may be found.
Classifications ==
    IF updTracked /\ jobTracked THEN [instancesCurrent -> Outcomes]
    ELSE {<<>>}

InitUpdate == TrackedIdle /\ SchedulerIdle /\ BatchIdle /\ FiltersIdle /\ PoolIdle /\ RecoveryIdle /\ UpdateInit /\ StartIdle /\ ServerIdle /\ TranslateIdle /\ ParseIdle /\ PrunerIdle /\ RespoolIdle /\ ListIdle

NextUpdate ==
    \/ \E cls \in Classifications, fault \in Faults, cancelErr \in CancelErrors,
          terminated \in BOOLEAN :
           UpdateRun(cls, fault, cancelErr, terminated)
    \/ UpdateRunOver

SpecUpdate == InitUpdate /\ [][NextUpdate]_vars

\* The instances of the update.
UpdateInstances ==
    Range(instancesAdded) \cup Range(instancesUpdated) \cup Range(instancesRemoved)

\* The last run did nothing to the tasks, wrote no progress and enqueued
\* nothing.
RunLeftNoTrace ==
    /\ updRun.created = <<>> /\ updRun.gangs = <<>>
    /\ updRun.patched = <<>> /\ updRun.deleted = <<>>
    /\ updRun.taskEnqueued = <<>>
    /\ updRun.admitted = <<>>
    /\ updRun.writeProgressCalls = 0 /\ ~updRun.wrote
    /\ ~updRun.updEnqueued
    /\ instancesCurrent = {} /\ instancesDone = {} /\ instancesFailed = {}

\* C19: an UpdateRun whose update is not in the tracker is a no-op that
\* returns nil: nothing is cancelled, created, patched, written or
\* enqueued.  An UpdateRun whose update is tracked but whose job is not
\* cancels the update and returns what Cancel returns, an error when Cancel
\* fails and nil when it succeeds, and does nothing else.
C19_UpdateRunAbsent ==
    updRun.op = "UpdateRun" =>
        /\ ~updRun.updFound =>
               /\ updRun.result = "nil"
               /\ ~updRun.cancelled
               /\ RunLeftNoTrace
        /\ (updRun.updFound /\ ~updRun.jobFound) =>
               /\ updRun.cancelled
               /\ updRun.result = updRun.cancelErr
               /\ RunLeftNoTrace

\* A run that found its update but not its job, and whose Cancel failed.
C19_Witness ==
    /\ updRun.op = "UpdateRun"
    /\ updRun.updFound /\ ~updRun.jobFound
    /\ updRun.cancelled
    /\ updRun.cancelErr = "fake db error"
    /\ updRun.result = "fake db error"

\* The instances the last run admitted.
Admitted == Range(updRun.admitted)

\* The pending set the last run admitted from, when the run wrote its
\* progress: the instances of the update that the run found neither in
\* progress nor done nor failed.
PendingBefore ==
    UpdateInstances \ (instancesDone \cup instancesFailed \cup updRun.inProgress)

\* A holds the lowest instance ids of S.
LowestOf(A, S) ==
    /\ A \subseteq S
    /\ \A x \in A, y \in S \ A : x < y

\* C20: with batch size b > 0 a run that comes to admit instances admits
\* at most b minus the number of instances still in progress, and the current set it writes (in progress
\* and admitted) has at most b instances; the admitted instances are the
\* lowest pending instance ids, in ascending order, for added, updated and
\* removed instances alike, each processed in its own way; with b = 0 every
\* pending instance is admitted.
C20_UpdateBatching ==
    (updRun.op = "UpdateRun" /\ updRun.updFound /\ updRun.jobFound
       /\ updRun.policy = "none") =>
        /\ \A k \in 1..(Len(updRun.admitted) - 1) :
               updRun.admitted[k] < updRun.admitted[k + 1]
        /\ Admitted \cap updRun.inProgress = {}
        /\ batchSize > 0 =>
               \/ Len(updRun.admitted) = 0
               \/ Len(updRun.admitted) + Cardinality(updRun.inProgress) <= batchSize
        /\ updRun.wrote =>
               /\ instancesCurrent = updRun.inProgress \cup Admitted
               /\ batchSize > 0 => Cardinality(instancesCurrent) <= batchSize
               /\ LowestOf(Admitted, PendingBefore)
               /\ \A K \in {Range(instancesAdded), Range(instancesUpdated),
                            Range(instancesRemoved)} :
                      LowestOf(Admitted \cap K, PendingBefore \cap K)
               /\ batchSize = 0 => Admitted = PendingBefore
               /\ Range(updRun.created) = Admitted \cap Range(instancesAdded)
               /\ Range(updRun.patched) = Admitted \cap Range(instancesUpdated)
               /\ Range(updRun.deleted) = Admitted \cap Range(instancesRemoved)

\* A run with a batch size above 0 that found an instance still in
\* progress, admitted one and left another pending.
C20_Witness ==
    /\ updRun.op = "UpdateRun"
    /\ updRun.wrote
    /\ batchSize > 0
    /\ updRun.inProgress # {}
    /\ Admitted # {}
    /\ PendingBefore \ Admitted # {}
    /\ Cardinality(instancesCurrent) = batchSize

(***************************************************************************)
(* jobmgr/tracked: task.start, the StartAction of a task.                  *)
(***************************************************************************)

\* What m.taskStore.GetTaskByID may return as task info: nil, or a task
\* whose config has a volume or not and whose runtime has a volume id or
\* not.
StoredTaskInfos ==
    {NIL} \cup [volume : BOOLEAN, volumeID : {"", "volume1"}]

\* The states of a persistent volume.
VolumeStates == {"INITIALIZED", "CREATED", "DELETED"}

\* What m.volumeStore.GetPersistentVolume may return: the volume, a
\* VolumeNotFoundError or another error.
VolumeReads ==
    [err : {"nil"}, state : VolumeStates]
        \cup {[err |-> "VolumeNotFoundError"], [err |-> "read error"]}

\* What a call to another service may return.
CallErrors == {"nil", "err"}

\* A task.start that takes every volume read error for a missing volume.
startEnqueuesOnReadError(jobConfigErr, taskErr, taskInfo, pv, taskLauncher, launchErr, enqueueErr) ==
    LET did(launch, enqueue, result) ==
            [launchCalls |-> launch, enqueueCalls |-> enqueue, result |-> result]
        stateful == taskInfo # NIL /\ taskInfo.volume /\ taskInfo.volumeID # ""
    IN IF jobConfigErr # "nil" THEN did(0, 0, "job config not found")
       ELSE IF taskErr # "nil" \/ taskInfo = NIL
       THEN did(0, 0, "task info not found")
       ELSE IF stateful /\ pv.err = "nil" /\ pv.state = "CREATED"
       THEN IF taskLauncher = NIL THEN did(0, 0, "task launcher not available")
            ELSE did(1, 0, launchErr)
       ELSE did(0, 1, enqueueErr)

\* task.start(ctx): reads the job config and the task info; a stateful
\* task (a volume in its config and a volume id in its runtime) whose
\* volume is CREATED is launched with its reserved resources, every other
\* task is enqueued as a gang to the resource manager.  What it called and
\* what it returns.
start(jobConfigErr, taskErr, taskInfo, pv, taskLauncher, launchErr, enqueueErr) ==
    LET did(launch, enqueue, result) ==
            [launchCalls |-> launch, enqueueCalls |-> enqueue, result |-> result]
        stateful == taskInfo # NIL /\ taskInfo.volume /\ taskInfo.volumeID # ""
    IN IF jobConfigErr # "nil" THEN did(0, 0, "job config not found")
       ELSE IF taskErr # "nil" \/ taskInfo = NIL
       THEN did(0, 0, "task info not found")
       ELSE IF stateful /\ pv.err \notin {"nil", "VolumeNotFoundError"}
       THEN did(0, 0, "failed to read volume")
       ELSE IF stateful /\ pv.err = "nil" /\ pv.state = "CREATED"
       THEN IF taskLauncher = NIL THEN did(0, 0, "task launcher not available")
            ELSE did(1, 0, launchErr)
       ELSE did(0, 1, enqueueErr)

StartInit == lastStart = [op |-> "none"]

\* One call of task.start with what the stores and the services return.
StartCall ==
    \E jobConfigErr \in CallErrors, taskErr \in CallErrors,
       taskInfo \in StoredTaskInfos, pv \in VolumeReads,
       taskLauncher \in {NIL, [launcher |-> "hostmgr"]},
       launchErr \in CallErrors, enqueueErr \in CallErrors :
        /\ lastStart' =
               [op |-> "start",
                jobConfigErr |-> jobConfigErr, taskErr |-> taskErr,
                taskInfo |-> taskInfo, pv |-> pv,
                taskLauncher |-> taskLauncher,
                out |-> start(jobConfigErr, taskErr, taskInfo, pv,
                              taskLauncher, launchErr, enqueueErr)]
        /\ UNCHANGED notStart

InitStart == TrackedIdle /\ SchedulerIdle /\ BatchIdle /\ FiltersIdle /\ PoolIdle /\ RecoveryIdle /\ UpdateIdle /\ StartInit /\ ServerIdle /\ TranslateIdle /\ ParseIdle /\ PrunerIdle /\ RespoolIdle /\ ListIdle

NextStart == StartCall

SpecStart == InitStart /\ [][NextStart]_vars

\* The last call of task.start read a task that is stateful: its config
\* has a volume and its runtime a volume id.
StartedStateful ==
    /\ lastStart.jobConfigErr = "nil" /\ lastStart.taskErr = "nil"
    /\ lastStart.taskInfo # NIL
    /\ lastStart.taskInfo.volume
    /\ lastStart.taskInfo.volumeID # ""

\* C28: a task.start that returns nil has done exactly one of two things:
\* for a stateful task whose volume was read in state CREATED it has
\* launched the task with its reserved resources and enqueued nothing; for
\* every other task (no volume, volume not found, volume not CREATED) it
\* has enqueued the task to the resource manager and launched nothing.  A
\* volume read error other than not-found makes it return an error with
\* neither call made.
C28_StartAction ==
    lastStart.op = "start" =>
        /\ lastStart.out.launchCalls + lastStart.out.enqueueCalls <= 1
        /\ lastStart.out.result = "nil" =>
               IF StartedStateful /\ lastStart.pv.err = "nil"
                    /\ lastStart.pv.state = "CREATED"
               THEN /\ lastStart.out.launchCalls = 1
                    /\ lastStart.out.enqueueCalls = 0
               ELSE /\ lastStart.out.launchCalls = 0
                    /\ lastStart.out.enqueueCalls = 1
        /\ (StartedStateful /\ lastStart.pv.err = "read error") =>
               /\ lastStart.out.result # "nil"
               /\ lastStart.out.launchCalls = 0
               /\ lastStart.out.enqueueCalls = 0

\* A stateful task whose volume is not found goes to the resource manager.
C28_Witness ==
    /\ lastStart.op = "start"
    /\ StartedStateful
    /\ lastStart.pv.err = "VolumeNotFoundError"
    /\ lastStart.out.result = "nil"
    /\ lastStart.out.enqueueCalls = 1
    /\ lastStart.out.launchCalls = 0

(***************************************************************************)
(* jobmgr: the Server, its leader-election callbacks.                      *)
(***************************************************************************)

\* The life cycles a server may be given.
LifeCycles == {"dispatcher", "goalstate", "recovery"}

\* The lists of distinct life cycles.
LifeCycleLists ==
    {l \in UNION {[1..n -> LifeCycles] : n \in 0..Cardinality(LifeCycles)} :
        \A a, b \in DOMAIN l : a # b => l[a] # l[b]}

\* The components of the server in the order its callbacks range over
\* them: s.getStatusUpdate(), s.getStatusUpdateRM(), then s.llcs.
Components == <<"statusUpdate", "statusUpdateRM">> \o llcs

\* NewServer(httpPort, grpcPort, llcs...).
NewServer ==
    /\ llcs \in LifeCycleLists
    /\ srvPc = [cb |-> "none", i |-> 0]
    /\ srvRunning = {}
    /\ startOrder = <<>>
    /\ stopOrder = <<>>

\* No callback is running.
Returned == srvPc.cb = "none" \/ srvPc.i > Len(Components)

\* The election calls GainedLeadershipCallback.
GainedLeadershipCallback ==
    /\ Returned
    /\ srvPc.cb \in {"none", "lost"}
    /\ srvPc' = [cb |-> "gained", i |-> 1]
    /\ startOrder' = <<>>
    /\ UNCHANGED <<llcs, srvRunning, stopOrder>>
    /\ UNCHANGED notServer

\* GainedLeadershipCallback calls Start() of its next component, or returns.
GainedStart ==
    /\ srvPc.cb = "gained"
    /\ srvPc.i <= Len(Components)
    /\ srvRunning' = srvRunning \cup {Components[srvPc.i]}
    /\ startOrder' = Append(startOrder, Components[srvPc.i])
    /\ srvPc' = [srvPc EXCEPT !.i = @ + 1]
    /\ UNCHANGED <<llcs, stopOrder>>
    /\ UNCHANGED notServer

\* The election calls LostLeadershipCallback.
LostLeadershipCallback ==
    /\ Returned
    /\ srvPc.cb = "gained"
    /\ srvPc' = [cb |-> "lost", i |-> 1]
    /\ stopOrder' = <<>>
    /\ UNCHANGED <<llcs, srvRunning, startOrder>>
    /\ UNCHANGED notServer

\* The election calls ShutDownCallback.
ShutDownCallback ==
    /\ Returned
    /\ srvPc.cb # "shutdown"
    /\ srvPc' = [cb |-> "shutdown", i |-> 1]
    /\ stopOrder' = <<>>
    /\ UNCHANGED <<llcs, srvRunning, startOrder>>
    /\ UNCHANGED notServer

\* LostLeadershipCallback or ShutDownCallback calls Stop() of its next
\* component, or returns.
Stopping ==
    /\ srvPc.cb \in {"lost", "shutdown"}
    /\ srvPc.i <= Len(Components)
    /\ srvRunning' = srvRunning \ {Components[srvPc.i]}
    /\ stopOrder' = Append(stopOrder, Components[srvPc.i])
    /\ srvPc' = [srvPc EXCEPT !.i = @ + 1]
    /\ UNCHANGED <<llcs, startOrder>>
    /\ UNCHANGED notServer

InitServer == TrackedIdle /\ SchedulerIdle /\ BatchIdle /\ FiltersIdle /\ PoolIdle /\ RecoveryIdle /\ UpdateIdle /\ StartIdle /\ NewServer /\ TranslateIdle /\ ParseIdle /\ PrunerIdle /\ RespoolIdle /\ ListIdle

NextServer ==
    \/ GainedLeadershipCallback
    \/ GainedStart
    \/ LostLeadershipCallback
    \/ ShutDownCallback
    \/ Stopping

SpecServer == InitServer /\ [][NextServer]_vars

\* The list in reverse.
Reverse(list) == [k \in 1..Len(list) |-> list[Len(list) + 1 - k]]

\* C29: when LostLeadershipCallback has returned, it has stopped the
\* components in the reverse of the order in which the gain of the
\* leadership started them.
C29_StopInReverse ==
    (srvPc.cb = "lost" /\ Returned) => stopOrder = Reverse(startOrder)

(***************************************************************************)
(* util: MesosStateToPelotonState.                                         *)
(***************************************************************************)

\* The status updates translated in one behaviour.
MaxStatusUpdates == 2

\* The task states of mesos_v1.TaskState: the ones the switch names and
\* the ones it leaves to its default.
MesosTaskStates ==
    {"TASK_STAGING", "TASK_STARTING", "TASK_RUNNING", "TASK_KILLING",
     "TASK_FINISHED", "TASK_FAILED", "TASK_KILLED", "TASK_LOST", "TASK_ERROR",
     "TASK_DROPPED", "TASK_UNREACHABLE", "TASK_GONE", "TASK_GONE_BY_OPERATOR",
     "TASK_UNKNOWN"}

\* A translation that takes a task being killed for killed.
MesosStateToPelotonStateKillingIsKilled(mstate) ==
    CASE mstate = "TASK_STAGING" -> "LAUNCHED"
      [] mstate = "TASK_STARTING" -> "LAUNCHED"
      [] mstate = "TASK_RUNNING" -> "RUNNING"
      [] mstate = "TASK_KILLING" -> "KILLED"
      [] mstate = "TASK_FINISHED" -> "SUCCEEDED"
      [] mstate = "TASK_FAILED" -> "FAILED"
      [] mstate = "TASK_KILLED" -> "KILLED"
      [] mstate = "TASK_LOST" -> "LOST"
      [] mstate = "TASK_ERROR" -> "FAILED"
      [] OTHER -> "INITIALIZED"

\* MesosStateToPelotonState(mstate): the switch over the Mesos task state
\* and its default.
MesosStateToPelotonState(mstate) ==
    CASE mstate = "TASK_STAGING" -> "LAUNCHED"
      [] mstate = "TASK_STARTING" -> "LAUNCHED"
      [] mstate = "TASK_RUNNING" -> "RUNNING"
      [] mstate = "TASK_KILLING" -> "RUNNING"
      [] mstate = "TASK_FINISHED" -> "SUCCEEDED"
      [] mstate = "TASK_FAILED" -> "FAILED"
      [] mstate = "TASK_KILLED" -> "KILLED"
      [] mstate = "TASK_LOST" -> "LOST"
      [] mstate = "TASK_ERROR" -> "FAILED"
      [] OTHER -> "INITIALIZED"

TranslateInit == statusLog = <<>>

\* A status update arrives and its Mesos state is translated.
TranslateStatus ==
    \E mstate \in MesosTaskStates :
        /\ Len(statusLog) < MaxStatusUpdates
        /\ statusLog' = Append(statusLog,
                                [mesos |-> mstate,
                                 peloton |-> MesosStateToPelotonState(mstate)])
        /\ UNCHANGED notTranslate

InitTranslate == TrackedIdle /\ SchedulerIdle /\ BatchIdle /\ FiltersIdle /\ PoolIdle /\ RecoveryIdle /\ UpdateIdle /\ StartIdle /\ ServerIdle /\ TranslateInit /\ ParseIdle /\ PrunerIdle /\ RespoolIdle /\ ListIdle

NextTranslate == TranslateStatus

SpecTranslate == InitTranslate /\ [][NextTranslate]_vars

\* The Peloton state the translation table gives a Mesos state, none for
\* a state the table does not name.
Tabled(mstate) ==
    IF mstate \in {"TASK_STAGING", "TASK_STARTING"} THEN {"LAUNCHED"}
    ELSE IF mstate \in {"TASK_RUNNING", "TASK_KILLING"} THEN {"RUNNING"}
    ELSE IF mstate = "TASK_FINISHED" THEN {"SUCCEEDED"}
    ELSE IF mstate \in {"TASK_FAILED", "TASK_ERROR"} THEN {"FAILED"}
    ELSE IF mstate = "TASK_KILLED" THEN {"KILLED"}
    ELSE IF mstate = "TASK_LOST" THEN {"LOST"}
    ELSE {}

\* C30: every Mesos state is translated: STAGING and STARTING to LAUNCHED,
\* RUNNING and KILLING to RUNNING, FINISHED to SUCCEEDED, FAILED and ERROR
\* to FAILED, KILLED to KILLED, LOST to LOST, and every other state to
\* INITIALIZED.
C30_StateTranslation ==
    \A k \in DOMAIN statusLog :
        IF Tabled(statusLog[k].mesos) # {}
        THEN statusLog[k].peloton \in Tabled(statusLog[k].mesos)
        ELSE statusLog[k].peloton = "INITIALIZED"

\* A task being killed was translated to RUNNING and a state the table
\* does not name to INITIALIZED.
C30_Witness ==
    /\ \E k \in DOMAIN statusLog :
           /\ statusLog[k].mesos = "TASK_KILLING"
           /\ statusLog[k].peloton = "RUNNING"
    /\ \E k \in DOMAIN statusLog :
           /\ statusLog[k].mesos = "TASK_UNREACHABLE"
           /\ statusLog[k].peloton = "INITIALIZED"

(***************************************************************************)
(* Claims about UpdateRun, continued.                                      *)
(***************************************************************************)

\* The last run found its update and its job and classified the instances
\* in flight.
RunClassified ==
    /\ updRun.op = "UpdateRun"
    /\ updRun.updFound /\ updRun.jobFound
    /\ updRun.fault # "AddTask"

\* The failed instances the last run found reach max_failure_instances
\* (0 is no limit).
FailureLimitReached ==
    /\ maxFailureInstances > 0
    /\ Cardinality(updRun.failed) >= maxFailureInstances

\* C21: a run that finds the failed instances at max_failure_instances,
\* with rollback_on_failure set and the update ROLLING_FORWARD, calls
\* Rollback exactly once and writes no progress; when Rollback succeeds the
\* target and the source version have changed places, the update is
\* ROLLING_BACKWARD and is enqueued again, and when it fails the run
\* returns the error and nothing else happens.  The versions are swapped
\* at most once: an update that is ROLLING_BACKWARD has swapped them once
\* and never swaps them again.
C21_RollbackOnce ==
    /\ versionSwaps <= 1
    /\ updState = "ROLLING_BACKWARD" =>
           versionSwaps = 1 /\ jobVersion = 3 /\ prevVersion = 4
    /\ updState = "ROLLING_FORWARD" =>
           versionSwaps = 0 /\ jobVersion = 4 /\ prevVersion = 3
    /\ (RunClassified /\ FailureLimitReached /\ rollbackOnFailure
          /\ updRun.state = "ROLLING_FORWARD") =>
           /\ updRun.rollbackCalls = 1
           /\ updRun.writeProgressCalls = 0
           /\ updRun.writeState # "FAILED"
           /\ updRun.result = "nil" =>
                  /\ updRun.updEnqueued
                  /\ updState = "ROLLING_BACKWARD"
           /\ updRun.result # "nil" =>
                  /\ ~updRun.updEnqueued
                  /\ updState = "ROLLING_FORWARD"
    /\ (RunClassified /\ updRun.state = "ROLLING_BACKWARD") =>
           updRun.rollbackCalls = 0

\* A run rolled the update back: Rollback was called once, the versions
\* have changed places and the update is enqueued.
C21_Witness ==
    /\ RunClassified /\ FailureLimitReached /\ rollbackOnFailure
    /\ updRun.state = "ROLLING_FORWARD"
    /\ updRun.rollbackCalls = 1
    /\ updRun.result = "nil"
    /\ updRun.updEnqueued
    /\ updState = "ROLLING_BACKWARD"
    /\ versionSwaps = 1

C23_UpdateCompletes ==
    RunClassified =>
        /\ updRun.done = UpdateInstances =>
               /\ updRun.writeProgressCalls = 1
               /\ updRun.writeState = updRun.state
               /\ updRun.writeState \in RollingStates
               /\ updRun.result = "nil" =>
                      /\ updRun.wrote
                      /\ updState = updRun.state
                      /\ instancesDone = UpdateInstances
                      /\ instancesFailed = {}
                      /\ instancesCurrent = {}
                      /\ updRun.updEnqueued
                      /\ updRun.enqueuedFor = "completed"
        /\ updRun.enqueuedFor = "completed" =>
               /\ updRun.wrote
               /\ instancesDone = UpdateInstances
               /\ updRun.inProgress = {}
               /\ updRun.admitted = <<>>
               /\ instancesCurrent = {}
               /\ instancesFailed = {}

\* A run found the last instances of an update of several instances done
\* and enqueued the update for completion.
C23_Witness ==
    /\ RunClassified
    /\ Cardinality(UpdateInstances) > 1
    /\ updRun.done = UpdateInstances
    /\ updRun.wrote
    /\ updRun.writeState = "ROLLING_FORWARD"
    /\ instancesDone = UpdateInstances
    /\ updRun.enqueuedFor = "completed"

\* C24: across the runs of an update the done set only grows, and after
\* every run the done, the failed and the current instances together are
\* no more than the instances of the update.
C24_MonotoneProgress ==
    [][/\ instancesDone \subseteq instancesDone'
       /\ Cardinality(instancesDone) <= Cardinality(instancesDone')
       /\ Cardinality(instancesDone') + Cardinality(instancesFailed')
              + Cardinality(instancesCurrent')
            <= Cardinality(Range(instancesAdded') \cup Range(instancesUpdated')
                             \cup Range(instancesRemoved'))]_vars

\* C25: every run that finds its update and its job and returns no error
\* has called WriteProgress exactly once and has enqueued the update again,
\* also when instances are still in progress.
C25_WriteAndEnqueue ==
    (updRun.op = "UpdateRun" /\ updRun.updFound /\ updRun.jobFound
       /\ updRun.result = "nil") =>
        /\ updRun.writeProgressCalls = 1
        /\ updRun.updEnqueued

\* The last run came to admit instances and patched the ones it admitted.
RunPatched ==
    /\ RunClassified
    /\ ~FailureLimitReached
    /\ updRun.fault # "PatchTasks"

\* C26: a run patches the runtime of every removed instance it admits
\* with goal state DELETED and the job version of the update as desired
\* config version, and enqueues its task to the task goal-state engine;
\* a removed instance it does not admit is neither patched nor enqueued,
\* and with batch size b > 0 the removed instances it patches and the
\* instances in progress are at most b.
C26_RemovedInstances ==
    RunPatched =>
        /\ \A x \in Range(instancesRemoved) \cap Admitted :
               /\ x \in DOMAIN updRun.runtimeDiffs
               /\ updRun.runtimeDiffs[x].goalState = "DELETED"
               /\ updRun.runtimeDiffs[x].desiredConfigVersion = jobVersion
               /\ x \in Range(updRun.taskEnqueued)
               /\ taskRuntimes[x] # NIL =>
                      /\ taskRuntimes[x].goalState = "DELETED"
                      /\ taskRuntimes[x].desiredConfigVersion = jobVersion
        /\ \A x \in Range(instancesRemoved) \ Admitted :
               /\ x \notin DOMAIN updRun.runtimeDiffs
               /\ x \notin Range(updRun.taskEnqueued)
               /\ x \notin Range(updRun.deleted)
        /\ Range(updRun.deleted) = Range(instancesRemoved) \cap Admitted
        /\ (batchSize > 0 /\ updRun.deleted # <<>>) =>
               Len(updRun.deleted) + Cardinality(updRun.inProgress) <= batchSize

\* With batch size 1 a run deleted the task of one removed instance and
\* left the other removed instance alone.
C26_Witness ==
    /\ RunPatched
    /\ batchSize = 1
    /\ Len(updRun.deleted) = 1
    /\ Range(instancesRemoved) \ Admitted # {}
    /\ \E x \in Range(updRun.deleted) :
           /\ updRun.runtimeDiffs[x].goalState = "DELETED"
           /\ taskRuntimes[x] # NIL
           /\ taskRuntimes[x].goalState = "DELETED"

MaxJobIdLen == 3

\* The decimal digits and their values.
DigitValue ==
    [c \in {"0", "1", "2", "3", "4", "5", "6", "7", "8", "9"} |->
        CASE c = "0" -> 0 [] c = "1" -> 1 [] c = "2" -> 2 [] c = "3" -> 3
          [] c = "4" -> 4 [] c = "5" -> 5 [] c = "6" -> 6 [] c = "7" -> 7
          [] c = "8" -> 8 [] c = "9" -> 9]

\* The characters of the ids: a hex letter, a digit and the separator.
IdChars == {"a", "1", "-"}

\* The strings over IdChars of at most n characters.
IdStrings(n) == UNION {[1..k -> IdChars] : k \in 0..n}

\* uuid.NewUUID().String(): hex segments with "-" between them; here of at
\* most MaxJobIdLen characters, so of one or two segments.
JobIds ==
    {id \in IdStrings(MaxJobIdLen) :
        /\ Len(id) > 0
        /\ id[1] # "-" /\ id[Len(id)] # "-"
        /\ \A k \in 1..(Len(id) - 1) : ~(id[k] = "-" /\ id[k + 1] = "-")}

\* The instance ids of the tasks.
ParsedInstanceIds == {0, 7, 10}

\* What follows the instance id in a Mesos task id: nothing, a run index
\* or a uuid.
Suffixes == {<<>>, <<"1">>, <<"a", "-", "1">>}

\* strings.Split(s, "-").
RECURSIVE Split(_)
Split(s) ==
    IF \A k \in DOMAIN s : s[k] # "-" THEN <<s>>
    ELSE LET at == CHOOSE k \in DOMAIN s :
                       s[k] = "-" /\ \A j \in 1..(k - 1) : s[j] # "-"
         IN <<SubSeq(s, 1, at - 1)>> \o Split(SubSeq(s, at + 1, Len(s)))

\* The value of a string of decimal digits.
RECURSIVE DigitsValue(_)
DigitsValue(s) ==
    IF s = <<>> THEN 0
    ELSE 10 * DigitsValue(SubSeq(s, 1, Len(s) - 1)) + DigitValue[s[Len(s)]]

\* strconv.Atoi(s): an optional sign and decimal digits, an error else.
Atoi(s) ==
    LET signed == s # <<>> /\ s[1] \in {"+", "-"}
        digits == IF signed THEN Tail(s) ELSE s
    IN IF digits # <<>> /\ \A k \in DOMAIN digits : digits[k] \in DOMAIN DigitValue
       THEN [err |-> "nil",
             value |-> IF signed /\ s[1] = "-" THEN 0 - DigitsValue(digits)
                       ELSE DigitsValue(digits)]
       ELSE [err |-> "invalid syntax", value |-> 0]

\* fmt.Sprintf("%d", n) of n >= 0.
RECURSIVE Itoa(_)
Itoa(n) ==
    LET last == CHOOSE c \in DOMAIN DigitValue : DigitValue[c] = n % 10
    IN IF n < 10 THEN <<last>> ELSE Itoa(n \div 10) \o <<last>>

\* fmt.Sprintf("%s-%d", jobID, instanceID).
TaskIdOf(jobID, instanceID) == jobID \o <<"-">> \o Itoa(instanceID)

\* fmt.Sprintf("%s-%d-%s", jobID, instanceID, suffix), the suffix optional.
MesosTaskIdOf(jobID, instanceID, suffix) ==
    TaskIdOf(jobID, instanceID)
        \o (IF suffix = <<>> THEN <<>> ELSE <<"-">> \o suffix)

\* ParseTaskIDFromMesosTaskID(mesosTaskID): the first part is the job id,
\* the second the instance id.
ParseTaskIDFromMesosTaskID(mesosTaskID) ==
    LET parts == Split(mesosTaskID)
    IN IF Len(parts) < 2
       THEN [taskID |-> <<>>, err |-> "Invalid peloton mesos task ID"]
       ELSE LET iID == Atoi(parts[2])
            IN IF iID.err # "nil"
               THEN [taskID |-> <<>>, err |-> "Invalid peloton mesos task ID"]
               ELSE [taskID |-> TaskIdOf(parts[1], iID.value), err |-> "nil"]

ParseInit == lastParse = [op |-> "none"]

\* The Mesos task id of a task of the program is parsed.
ParseBuilt ==
    \E jobID \in JobIds, instanceID \in ParsedInstanceIds, suffix \in Suffixes :
        /\ lastParse' =
               [op |-> "built", jobID |-> jobID, instanceID |-> instanceID,
                mesosTaskID |-> MesosTaskIdOf(jobID, instanceID, suffix),
                out |-> ParseTaskIDFromMesosTaskID(
                            MesosTaskIdOf(jobID, instanceID, suffix))]
        /\ UNCHANGED notParse

\* Any string is parsed.
ParseAny ==
    \E mesosTaskID \in IdStrings(MaxJobIdLen + 1) :
        /\ lastParse' =
               [op |-> "any", mesosTaskID |-> mesosTaskID,
                out |-> ParseTaskIDFromMesosTaskID(mesosTaskID)]
        /\ UNCHANGED notParse

InitParse == TrackedIdle /\ SchedulerIdle /\ BatchIdle /\ FiltersIdle /\ PoolIdle /\ RecoveryIdle /\ UpdateIdle /\ StartIdle /\ ServerIdle /\ TranslateIdle /\ ParseInit /\ PrunerIdle /\ RespoolIdle /\ ListIdle

NextParse ==
    \/ ParseBuilt
    \/ ParseAny

SpecParse == InitParse /\ [][NextParse]_vars

\* C31: for every Mesos task id the program builds from a job id, an
\* instance id and an optional suffix, ParseTaskIDFromMesosTaskID returns
\* without error the task id of that job and instance, also when the job id
\* holds "-"; an id of fewer than 2 segments or with a second segment that
\* is no number is rejected with an error.
C31_ParseMesosTaskID ==
    /\ lastParse.op = "built" =>
           /\ lastParse.out.err = "nil"
           /\ lastParse.out.taskID = TaskIdOf(lastParse.jobID, lastParse.instanceID)
    /\ lastParse.op = "any" =>
           LET parts == Split(lastParse.mesosTaskID)
           IN (Len(parts) < 2 \/ Atoi(parts[2]).err # "nil") =>
                  lastParse.out.err # "nil"

(***************************************************************************)
(* Claims about RunAction, continued.                                      *)
(***************************************************************************)

\* C32: RunAction returns an error whenever the step it executed failed,
\* for every action, also when the write of the FAILED runtime of
\* FailAction fails and when PreemptAction cannot read the preemption
\* policy of the task.
C32_FailedStepReturnsError ==
    call.op = "RunAction" => (call.failed => call.err)

\* C33: RunAction returns reschedule false for NoAction, for KilledAction,
\* which leaves the kill attempts at 0, and for a StartAction or StopAction
\* without error; with an error from start, stop, initialize, launch retry,
\* notify, reload or an unknown action it returns reschedule true; and
\* ReloadTaskRuntime returns an error and reschedule true also when the
\* reload did not fail.
C33_Reschedule ==
    call.op = "RunAction" =>
        /\ call.action \in {NoAction, KilledAction} => ~call.reschedule
        /\ call.action = KilledAction => killingAttempts = 0
        /\ (call.action \in {StartAction, StopAction} /\ ~call.err) =>
               ~call.reschedule
        /\ (call.action \in {StartAction, StopAction, InitializeAction,
                             LaunchRetryAction, NotifyLaunchedTasksAction,
                             ReloadTaskRuntime, UseGoalVersionAction}
              /\ call.err) =>
               call.reschedule
        /\ call.action = ReloadTaskRuntime => (call.err /\ call.reschedule)

\* A reload that did not fail and refreshed the cache returned an error
\* with reschedule true.
C33_Witness ==
    /\ call.op = "RunAction"
    /\ call.action = ReloadTaskRuntime
    /\ ~call.failed
    /\ runtime # NIL
    /\ lastRuntimeUpdateTime = now
    /\ call.err
    /\ call.reschedule

(***************************************************************************)
(* The offer pruner (src/unnamed/part_002, lines 215-320): Start, Stop and *)
(* the pruning goroutine, over the offer pool above.                       *)
(***************************************************************************)

runningStateNotStarted == 0
runningStateRunning == 1

\* The goroutines that call Start and Stop.
PrunerCallers == {"c1", "c2"}

\* The offers that reach the pool while the pruner is followed.
PrunedOfferIds == {"offer1", "offer2"}

\* NewOfferPruner over an empty pool.
PrunerInit ==
    /\ PrunerIdle
    /\ PoolIdle

\* A goroutine of Start's "go func()" at position pos.
Loop(pos, toDecline) == [pos |-> pos, offersToDecline |-> toDecline]

\* loops without its g-th goroutine.
Without(g) == [k \in 1..(Len(loops) - 1) |-> IF k < g THEN loops[k] ELSE loops[k + 1]]

\* p.Lock() at the head of Start and of Stop.
Lock(c, op) ==
    /\ callerPc[c] = "idle"
    /\ prunerMutex = "free"
    /\ prunerMutex' = c
    /\ callerPc' = [callerPc EXCEPT ![c] = op]
    /\ UNCHANGED <<runningState, stopPrunerChan, startedChan, loops, lastPrunerCall>>
    /\ UNCHANGED notPruner

\* The function returns: the deferred p.Unlock().
PrunerReturn(c, op, noop) ==
    /\ prunerMutex' = "free"
    /\ callerPc' = [callerPc EXCEPT ![c] = "idle"]
    /\ lastPrunerCall' = [op |-> op, caller |-> c, noop |-> noop,
                          loopsAtReturn |-> loops]

\* Start that takes the pruner for stopped whatever runningState says.
StartSeesRunningNever(state) == FALSE

\* Start: "if p.runningState == runningStateRunning".
StartSeesRunning(state) == state = runningStateRunning

\* Start after the lock: nothing when the pruner runs; else the started
\* channel is made and the goroutine spawned.
StartBody(c) ==
    /\ callerPc[c] = "Start"
    /\ IF StartSeesRunning(runningState)
       THEN /\ PrunerReturn(c, "Start", TRUE)
            /\ UNCHANGED <<startedChan, loops>>
       ELSE /\ startedChan' = 0
            /\ loops' = Append(loops, Loop("spawned", {}))
            /\ callerPc' = [callerPc EXCEPT ![c] = "StartWait"]
            /\ UNCHANGED <<prunerMutex, lastPrunerCall>>
    /\ UNCHANGED <<runningState, stopPrunerChan>>
    /\ UNCHANGED notPruner

\* Start: "<-started", then the return.
StartReturn(c) ==
    /\ callerPc[c] = "StartWait"
    /\ startedChan = 1
    /\ startedChan' = 0
    /\ PrunerReturn(c, "Start", FALSE)
    /\ UNCHANGED <<runningState, stopPrunerChan, loops>>
    /\ UNCHANGED notPruner

\* The goroutine: atomic.StoreInt32(&p.runningState, runningStateRunning).
LoopStoreRunning(g) ==
    /\ loops[g].pos = "spawned"
    /\ runningState' = runningStateRunning
    /\ loops' = [loops EXCEPT ![g].pos = "announce"]
    /\ UNCHANGED <<stopPrunerChan, startedChan, prunerMutex, callerPc, lastPrunerCall>>
    /\ UNCHANGED notPruner

\* The goroutine: "started <- 0"; the send blocks while the channel is full.
LoopAnnounce(g) ==
    /\ loops[g].pos = "announce"
    /\ startedChan = 0
    /\ startedChan' = 1
    /\ loops' = [loops EXCEPT ![g].pos = "select"]
    /\ UNCHANGED <<runningState, stopPrunerChan, prunerMutex, callerPc, lastPrunerCall>>
    /\ UNCHANGED notPruner

\* The goroutine's select: "case <-p.stopPrunerChan", return.
LoopStopReceived(g) ==
    /\ loops[g].pos = "select"
    /\ stopPrunerChan = 1
    /\ stopPrunerChan' = 0
    /\ loops' = [loops EXCEPT ![g].pos = "exiting"]
    /\ UNCHANGED <<runningState, startedChan, prunerMutex, callerPc, lastPrunerCall>>
    /\ UNCHANGED notPruner

\* The goroutine's select: "case <-timer.C", p.pool.RemoveExpiredOffers().
\* With no offer to decline the loop goes to its next round.
LoopTimerFired(g) ==
    /\ loops[g].pos = "select"
    /\ LET r == RemoveExpiredOffers(poolOffers, offerHoldTime, poolNow, FALSE)
       IN /\ poolOffers' = r.offers
          /\ lastRemove' = [op |-> "RemoveExpiredOffers", caller |-> "pruner",
                            force |-> FALSE, before |-> poolOffers, at |-> poolNow,
                            result |-> r.result, after |-> r.offers,
                            declined |-> {}]
          /\ loops' = IF r.result # {}
                      THEN [loops EXCEPT ![g] = Loop("decline", r.result)]
                      ELSE loops
    /\ UNCHANGED <<offerHoldTime, poolNow>>
    /\ UNCHANGED <<runningState, stopPrunerChan, startedChan, prunerMutex, callerPc, lastPrunerCall>>
    /\ UNCHANGED notPrunerPool

\* The goroutine: p.pool.DeclineOffers(offersToDecline).
LoopDecline(g) ==
    /\ loops[g].pos = "decline"
    /\ lastRemove' = [lastRemove EXCEPT !.declined = loops[g].offersToDecline]
    /\ loops' = [loops EXCEPT ![g] = Loop("select", {})]
    /\ UNCHANGED <<poolOffers, offerHoldTime, poolNow>>
    /\ UNCHANGED <<runningState, stopPrunerChan, startedChan, prunerMutex, callerPc, lastPrunerCall>>
    /\ UNCHANGED notPrunerPool

\* The goroutine returns: the deferred
\* atomic.StoreInt32(&p.runningState, runningStateNotStarted).
LoopExit(g) ==
    /\ loops[g].pos = "exiting"
    /\ runningState' = runningStateNotStarted
    /\ loops' = Without(g)
    /\ UNCHANGED <<stopPrunerChan, startedChan, prunerMutex, callerPc, lastPrunerCall>>
    /\ UNCHANGED notPruner

\* Stop after the lock: nothing when the pruner is not running.
StopBody(c) ==
    /\ callerPc[c] = "Stop"
    /\ IF runningState = runningStateNotStarted
       THEN PrunerReturn(c, "Stop", TRUE)
       ELSE /\ callerPc' = [callerPc EXCEPT ![c] = "StopSend"]
            /\ UNCHANGED <<prunerMutex, lastPrunerCall>>
    /\ UNCHANGED <<runningState, stopPrunerChan, startedChan, loops>>
    /\ UNCHANGED notPruner

\* Stop: "p.stopPrunerChan <- struct{}{}"; the send blocks while the
\* channel is full.
StopSend(c) ==
    /\ callerPc[c] = "StopSend"
    /\ stopPrunerChan = 0
    /\ stopPrunerChan' = 1
    /\ callerPc' = [callerPc EXCEPT ![c] = "StopWait"]
    /\ UNCHANGED <<runningState, startedChan, prunerMutex, loops, lastPrunerCall>>
    /\ UNCHANGED notPruner

\* Stop: the wait loop finds runningState other than running, and Stop
\* returns (while it is running the loop sleeps and loads it again).
StopReturn(c) ==
    /\ callerPc[c] = "StopWait"
    /\ runningState # runningStateRunning
    /\ PrunerReturn(c, "Stop", FALSE)
    /\ UNCHANGED <<runningState, stopPrunerChan, startedChan, loops>>
    /\ UNCHANGED notPruner

InitPruner == TrackedIdle /\ SchedulerIdle /\ BatchIdle /\ FiltersIdle /\ RecoveryIdle /\ UpdateIdle /\ StartIdle /\ ServerIdle /\ TranslateIdle /\ ParseIdle /\ PrunerInit /\ RespoolIdle /\ ListIdle

\* The steps of the pruning goroutines.
LoopStep ==
    \E g \in 1..Len(loops) :
        \/ LoopStoreRunning(g)
        \/ LoopAnnounce(g)
        \/ LoopStopReceived(g)
        \/ LoopTimerFired(g)
        \/ LoopDecline(g)
        \/ LoopExit(g)

NextPruner ==
    \/ \E id \in PrunedOfferIds : AddOffer(id)
    \/ PoolTick
    \/ \E c \in PrunerCallers, op \in {"Start", "Stop"} : Lock(c, op)
    \/ \E c \in PrunerCallers : StartBody(c)
    \/ \E c \in PrunerCallers : StartReturn(c)
    \/ \E c \in PrunerCallers : StopBody(c)
    \/ \E c \in PrunerCallers : StopSend(c)
    \/ \E c \in PrunerCallers : StopReturn(c)
    \/ \E g \in 1..Len(loops) : LoopStoreRunning(g)
    \/ \E g \in 1..Len(loops) : LoopAnnounce(g)
    \/ \E g \in 1..Len(loops) : LoopStopReceived(g)
    \/ \E g \in 1..Len(loops) : LoopTimerFired(g)
    \/ \E g \in 1..Len(loops) : LoopDecline(g)
    \/ \E g \in 1..Len(loops) : LoopExit(g)

SpecPruner == InitPruner /\ [][NextPruner]_vars

\* A caller is inside Start, past its check of runningState.
Starting == \E c \in PrunerCallers : callerPc[c] = "StartWait"

\* C36: the life cycle of the offer pruner, for every interleaving of Start
\* and Stop: at most one pruning loop runs; Start while it runs and Stop
\* while it does not are no-ops; a Stop is never blocked for good (its send
\* finds the channel empty, and while it waits the loop has the stop token
\* to take or is on its way out) and returns only after the loop has
\* exited, with no loop left to remove or decline an offer until the next
\* Start; and every offer the loop removed as expired is passed to
\* DeclineOffers before the loop goes on.
C36_PrunerLifecycle ==
    /\ Len(loops) <= 1
    /\ lastPrunerCall.op = "Start" => Len(lastPrunerCall.loopsAtReturn) = 1
    /\ lastPrunerCall.op = "Stop" => lastPrunerCall.loopsAtReturn = <<>>
    /\ \A c \in PrunerCallers :
           /\ callerPc[c] = "StopSend" => stopPrunerChan = 0
           /\ callerPc[c] = "StopWait" =>
                  \/ runningState = runningStateNotStarted
                  \/ \E g \in 1..Len(loops) : loops[g].pos = "exiting"
                  \/ /\ stopPrunerChan = 1
                     /\ \E g \in 1..Len(loops) : loops[g].pos \in {"select", "decline"}
    /\ (lastPrunerCall.op = "Stop" /\ ~Starting) =>
           /\ loops = <<>>
           /\ runningState = runningStateNotStarted
    /\ (lastRemove.op = "RemoveExpiredOffers" /\ lastRemove.caller = "pruner") =>
           \/ lastRemove.declined = lastRemove.result
           \/ \E g \in 1..Len(loops) :
                  /\ loops[g].pos = "decline"
                  /\ loops[g].offersToDecline = lastRemove.result

\* A Stop has returned after the loop, which had removed and declined an
\* expired offer, took the stop token and exited; an offer is in the pool
\* past its hold time and nothing prunes it.
C36_Witness ==
    /\ lastPrunerCall.op = "Stop"
    /\ ~lastPrunerCall.noop
    /\ lastRemove.op = "RemoveExpiredOffers"
    /\ lastRemove.caller = "pruner"
    /\ lastRemove.declined # {}
    /\ loops = <<>>
    /\ \E id \in DOMAIN poolOffers : poolNow - poolOffers[id] > offerHoldTime

(***************************************************************************)
(* The resource pool config validator (src/unnamed/part_001) over the      *)
(* resource pool tree: every create and every update of a pool goes        *)
(* through Validate and is applied when Validate returns nil.              *)
(***************************************************************************)

RootResPoolID == "root"

\* The ids of the requests: the root and the pools that may be created.
ResPoolIds == {RootResPoolID, "respool1", "respool2"}

\* The names of the configs.
ResPoolNames == {"a", "b"}

\* The resource kinds of the configs.
Kinds == {"cpu", "mem"}

\* The reservations and limits of the configs; the root has the highest.
ResourceValues == {1, 2}
RootResources == [reservation |-> 2, limit |-> 2]

\* The ResourceConfig of the requests, per kind: every reservation and
\* limit for cpu, one of each for mem.
ResourceConfigs(kind) ==
    IF kind = "cpu"
    THEN {[reservation |-> r, limit |-> l] : r \in ResourceValues, l \in ResourceValues}
    ELSE {[reservation |-> 1, limit |-> 1]}

\* The ResourcePoolConfig of the requests: a name, a parent and the
\* resources of the kinds it lists.
ResourcePoolConfigs ==
    {[name |-> n, parent |-> p, resources |-> res] :
        n \in ResPoolNames, p \in ResPoolIds,
        res \in UNION {{f \in [K -> UNION {ResourceConfigs(k) : k \in K}] :
                            \A k \in K : f[k] \in ResourceConfigs(k)} :
                        K \in {{"cpu"}, Kinds}}}

\* resTree.Get(ID): the pool, or NIL with an error when the tree has none.
Get(tree, id) == IF id \in DOMAIN tree THEN tree[id] ELSE NIL

\* parent.Children().
Children(tree, id) ==
    {c \in DOMAIN tree : tree[c] # NIL /\ tree[c].parent = id}

\* The sum of f over S.
RECURSIVE Sum(_, _)
Sum(f, S) ==
    IF S = {} THEN 0
    ELSE LET x == CHOOSE y \in S : TRUE IN f[x] + Sum(f, S \ {x})

\* parent.AggregatedChildrenReservations(): per kind the reservations of
\* the children that have the kind.
AggregatedChildrenReservations(tree, id) ==
    [kind \in Kinds |->
        LET having == {c \in Children(tree, id) : kind \in DOMAIN tree[c].resources}
        IN Sum([c \in having |-> tree[c].resources[kind].reservation], having)]

\* ValidateResourcePool: the root is not overridden, no reservation above
\* its limit.
ValidateResourcePool(tree, id, config) ==
    IF id = RootResPoolID THEN "cannot override root"
    ELSE IF \E kind \in DOMAIN config.resources :
                config.resources[kind].limit < config.resources[kind].reservation
    THEN "reservation exceeds limit"
    ELSE "nil"

\* ValidateCycle: the pool is not its own parent.
ValidateCycle(tree, id, config) ==
    IF id = config.parent THEN "pool and parent cannot be same" ELSE "nil"

\* ValidateParent letting an update name another parent.
ValidateParentAllowsOverride(tree, id, config) ==
    LET parent == Get(tree, config.parent) IN
    IF parent = NIL THEN "parent not found"
    ELSE IF \E kind \in DOMAIN config.resources : kind \notin DOMAIN parent.resources
    THEN "parent doesn't have resource kind"
    ELSE IF \E kind \in DOMAIN config.resources :
                config.resources[kind].limit > parent.resources[kind].limit
    THEN "limit exceeds parent limit"
    ELSE "nil"

\* ValidateParent: the parent exists, an existing pool keeps its parent,
\* the parent has every kind of the config and no limit is above the
\* parent's.  (The loop over the kinds stops at the first error; which
\* error it is does not matter here.)
ValidateParent(tree, id, config) ==
    LET existingResourcePool == Get(tree, id)
        parent == Get(tree, config.parent)
    IN IF parent = NIL THEN "parent not found"
       ELSE IF existingResourcePool # NIL /\ config.parent # existingResourcePool.parent
       THEN "parent override not allowed"
       ELSE IF \E kind \in DOMAIN config.resources : kind \notin DOMAIN parent.resources
       THEN "parent doesn't have resource kind"
       ELSE IF \E kind \in DOMAIN config.resources :
                   config.resources[kind].limit > parent.resources[kind].limit
       THEN "limit exceeds parent limit"
       ELSE "nil"

\* ValidateSiblings: the name is not the name of a child of the parent,
\* the name the pool has now left aside.
ValidateSiblings(tree, id, config) ==
    LET parentResPool == Get(tree, config.parent)
        existingResPool == Get(tree, id)
        allNames == {tree[c].name : c \in Children(tree, config.parent)}
        siblingNames == IF existingResPool # NIL
                        THEN allNames \ {existingResPool.name}
                        ELSE allNames
    IN IF parentResPool = NIL THEN "parent not found"
       ELSE IF config.name \in siblingNames THEN "resource pool already exists"
       ELSE "nil"

\* ValidateChildrenReservations: per kind of the config, its reservation
\* and those of the children of the parent, less the reservation the pool
\* has now, are not above the reservation of the parent.
ValidateChildrenReservations(tree, id, config) ==
    LET parent == Get(tree, config.parent)
        existingResPool == Get(tree, id)
        childReservations == AggregatedChildrenReservations(tree, config.parent)
        Own(kind) == IF existingResPool # NIL /\ kind \in DOMAIN existingResPool.resources
                     THEN existingResPool.resources[kind].reservation
                     ELSE 0
        Aggregated(kind) ==
            config.resources[kind].reservation + childReservations[kind] - Own(kind)
    IN IF parent = NIL THEN "parent not found"
       ELSE IF \E kind \in DOMAIN config.resources : kind \notin DOMAIN parent.resources
       THEN "parent doesn't have resource kind"
       ELSE IF \E kind \in DOMAIN config.resources :
                   Aggregated(kind) > parent.resources[kind].reservation
       THEN "aggregated child reservation exceeds parent"
       ELSE "nil"

\* resourcePoolConfigValidator.Validate: the registered functions in their
\* order, up to the first error.
Validate(tree, id, config) ==
    LET e1 == ValidateResourcePool(tree, id, config)
        e2 == ValidateCycle(tree, id, config)
        e3 == ValidateParent(tree, id, config)
        e4 == ValidateSiblings(tree, id, config)
        e5 == ValidateChildrenReservations(tree, id, config)
    IN IF e1 # "nil" THEN e1
       ELSE IF e2 # "nil" THEN e2
       ELSE IF e3 # "nil" THEN e3
       ELSE IF e4 # "nil" THEN e4
       ELSE e5

\* The tree of a new resource manager: the root alone, with all the
\* resources of the cluster.
RespoolInit ==
    /\ resTree = [id \in ResPoolIds |->
                     IF id = RootResPoolID
                     THEN [name |-> "root", parent |-> "",
                           resources |-> [kind \in Kinds |-> RootResources]]
                     ELSE NIL]
    /\ lastValidate = [op |-> "none"]

\* A create or an update of pool id with config: Validate, and the config
\* enters the tree when Validate returns nil.
ValidateAndApply(id, config) ==
    /\ \E err \in {Validate(resTree, id, config)} :
        /\ lastValidate' = [op |-> "Validate", id |-> id, err |-> err,
                            existed |-> resTree[id] # NIL,
                            parent |-> IF resTree[id] # NIL THEN resTree[id].parent
                                       ELSE "",
                            name |-> IF resTree[id] # NIL THEN resTree[id].name
                                     ELSE ""]
        /\ resTree' = IF err = "nil" THEN [resTree EXCEPT ![id] = config]
                      ELSE resTree
    /\ UNCHANGED notRespool

InitRespool == TrackedIdle /\ SchedulerIdle /\ BatchIdle /\ FiltersIdle /\ PoolIdle /\ RecoveryIdle /\ UpdateIdle /\ StartIdle /\ ServerIdle /\ TranslateIdle /\ ParseIdle /\ PrunerIdle /\ RespoolInit /\ ListIdle

NextRespool ==
    \E id \in ResPoolIds, config \in ResourcePoolConfigs : ValidateAndApply(id, config)

SpecRespool == InitRespool /\ [][NextRespool]_vars

\* The pools of the tree.
Pools == {id \in ResPoolIds : resTree[id] # NIL}

\* C38: after any creations and updates that passed Validate, for every
\* pool and resource kind the reservations of its children sum to no more
\* than its own reservation, no child has a limit above its parent's, and
\* no pool has a reservation above its own limit.
C38_ReservationsAndLimits ==
    \A id \in Pools :
        /\ \A kind \in DOMAIN resTree[id].resources :
               /\ AggregatedChildrenReservations(resTree, id)[kind]
                      <= resTree[id].resources[kind].reservation
               /\ resTree[id].resources[kind].reservation
                      <= resTree[id].resources[kind].limit
        /\ \A c \in Children(resTree, id) :
               \A kind \in DOMAIN resTree[c].resources :
                   /\ kind \in DOMAIN resTree[id].resources
                   /\ resTree[c].resources[kind].limit
                          <= resTree[id].resources[kind].limit

\* The pools reached from id by going to the parent n times at most.
RECURSIVE AncestorsWithin(_, _)
AncestorsWithin(id, n) ==
    IF n = 0 \/ id \notin Pools \/ resTree[id].parent \notin Pools THEN {}
    ELSE {resTree[id].parent} \cup AncestorsWithin(resTree[id].parent, n - 1)

\* C39: after any creations and updates that passed Validate the pools
\* form a tree: no pool is its own parent or ancestor and every pool but
\* the root has its parent in the tree, the root is as it was made, a pool
\* that existed has the parent it had, and no two children of a parent
\* have the same name.
C39_Tree ==
    /\ \A id \in Pools :
           /\ id \notin AncestorsWithin(id, Cardinality(ResPoolIds))
           /\ id # RootResPoolID => resTree[id].parent \in Pools
    /\ RootResPoolID \in Pools
    /\ resTree[RootResPoolID].name = "root"
    /\ resTree[RootResPoolID].parent = ""
    /\ \A kind \in Kinds :
           resTree[RootResPoolID].resources[kind] = RootResources
    /\ (lastValidate.op = "Validate" /\ lastValidate.err = "nil"
          /\ lastValidate.existed) =>
           resTree[lastValidate.id].parent = lastValidate.parent
    /\ \A c1, c2 \in Pools :
           (c1 # c2 /\ resTree[c1].parent = resTree[c2].parent) =>
               resTree[c1].name # resTree[c2].name

\* A pool under another pool under the root was updated, taking a new
\* name, and kept its parent.
C39_Witness ==
    /\ lastValidate.op = "Validate"
    /\ lastValidate.err = "nil"
    /\ lastValidate.existed
    /\ lastValidate.name # resTree[lastValidate.id].name
    /\ resTree[lastValidate.id].parent \in Pools \ {RootResPoolID}
    /\ Cardinality(AncestorsWithin(lastValidate.id, Cardinality(ResPoolIds))) = 2

(***************************************************************************)
(* TaskManager.List (src/master/task/manager.go, lines 66-102)             *)
(***************************************************************************)

\* Bound of the model of List: the instances of the job.
MaxListInstances == 3

\* The job ids of the requests: the job of the store and an unknown one.
ListJobIds == {"job1", "job2"}

\* The ranges of the requests: From included, To excluded.
InstanceRanges ==
    {[from |-> a, to |-> b] : a \in 0..MaxListInstances, b \in 0..MaxListInstances}

\* The stores: job1 with some of its tasks stored.
ListInit ==
    /\ listJobs = {"job1"}
    /\ listTasks \in SUBSET (0..(MaxListInstances - 1))
    /\ lastList = [op |-> "none"]

\* A task of job1 enters the task store.
ListCreateTask(i) ==
    /\ i \notin listTasks
    /\ listTasks' = listTasks \cup {i}
    /\ UNCHANGED <<listJobs, lastList>>
    /\ UNCHANGED notList

\* TaskStore.GetTasksForJobByRange(jobID, range): the tasks of the job
\* whose instance id is in the range.
GetTasksForJobByRange(jobId, range) ==
    IF jobId \in listJobs
    THEN {i \in listTasks : range.from <= i /\ i < range.to}
    ELSE {}

\* err.Error(): the message of the error; on a nil error the call is a nil
\* dereference and the handler panics.
ErrorMessage(err) == IF err = "nil" THEN "panic" ELSE err

\* The response of List from what GetJob and GetTasksForJobByRange
\* returned; "panic" when building it dereferences a nil error.
ListResponse(jobErr, err, result) ==
    IF jobErr # "nil"
    THEN [response |-> "NotFound", message |-> ErrorMessage(jobErr), value |-> {}]
    ELSE IF err # "nil" \/ result = {}
    THEN IF ErrorMessage(err) = "panic"
         THEN [response |-> "panic", message |-> "", value |-> {}]
         ELSE [response |-> "NotFound", message |-> ErrorMessage(err), value |-> {}]
    ELSE [response |-> "Result", message |-> "", value |-> result]

\* List(body): GetJob (jobStoreErr: the job store fails), then
\* GetTasksForJobByRange (taskStoreErr: the task store fails).
List(jobId, range, jobStoreErr, taskStoreErr) ==
    /\ LET jobErr == IF jobStoreErr \/ jobId \notin listJobs
                     THEN "job not found" ELSE "nil"
           err == IF taskStoreErr THEN "task store failed" ELSE "nil"
           result == IF taskStoreErr THEN {} ELSE GetTasksForJobByRange(jobId, range)
       IN lastList' = [op |-> "List", jobId |-> jobId, range |-> range,
                       jobErr |-> jobErr,
                       err |-> IF jobErr = "nil" THEN err ELSE "nil",
                       result |-> IF jobErr = "nil" THEN result ELSE {},
                       out |-> ListResponse(jobErr, err, result)]
    /\ UNCHANGED <<listJobs, listTasks>>
    /\ UNCHANGED notList

InitList == TrackedIdle /\ SchedulerIdle /\ BatchIdle /\ FiltersIdle /\ PoolIdle /\ RecoveryIdle /\ UpdateIdle /\ StartIdle /\ ServerIdle /\ TranslateIdle /\ ParseIdle /\ PrunerIdle /\ RespoolIdle /\ ListInit

NextList ==
    \/ \E i \in 0..(MaxListInstances - 1) : ListCreateTask(i)
    \/ \E jobId \in ListJobIds, range \in InstanceRanges,
          jobStoreErr \in BOOLEAN, taskStoreErr \in BOOLEAN :
           List(jobId, range, jobStoreErr, taskStoreErr)

SpecList == InitList /\ [][NextList]_vars

\* C40: List always returns a response: NotFound when the job does not
\* exist, when the task store fails, or when the store returns nothing and
\* no error for the range, and the tasks otherwise; it never crashes.
C40_ListAlwaysResponds ==
    lastList.op = "List" =>
        /\ lastList.out.response # "panic"
        /\ (lastList.jobErr # "nil" \/ lastList.err # "nil" \/ lastList.result = {})
               => lastList.out.response = "NotFound"
        /\ (lastList.jobErr = "nil" /\ lastList.err = "nil" /\ lastList.result # {})
               => /\ lastList.out.response = "Result"
                  /\ lastList.out.value = lastList.result

====
